---- MODULE Spec2Model ----
(***************************************************************************)
(* ETag response cache with event-driven invalidation.                     *)
(*                                                                         *)
(* The model follows commissioning/cache.py (MemoryCache, Subscriber,      *)
(* CachingSend, CachingMiddleware), projects/cache.py (the CachingSend and *)
(* CachingMiddleware that key a plain mapping by URL) and the GET and      *)
(* write handlers of projects/main.py.                                     *)
(*                                                                         *)
(* Conventions.                                                            *)
(*  - A Python str that the code splits, strips or lowercases (the value   *)
(*    of a Vary header and the header names in it) is a sequence of        *)
(*    tokens: a header name is one token, ";" "," and " " are tokens.      *)
(*  - A header mapping is a function from lowercased header names to       *)
(*    values; Headers.get(name) is Get.                                    *)
(*  - frozenset({url, (name, value), ...}) is the set holding the 1-tuple  *)
(*    <<url>> and the pairs <<name, value>>: a str never equals a tuple in *)
(*    Python, and a 1-tuple never equals a pair here.                      *)
(*  - Optional[...] attributes are sequences of length 0 or 1.             *)
(***************************************************************************)
EXTENDS Integers, Sequences, FiniteSets, TLC

VARIABLES
    impl,           \* which CachingMiddleware is installed: "memory" | "mapping"
    entries,        \* MemoryCache.entries / the mapping handed to projects' middleware
    vary_headers,   \* MemoryCache.vary_headers
    subs,           \* callbacks subscribed on the model classes
    db,             \* rows of the projects database
    req,            \* the requests in flight, one per slot
    ngets,          \* number of GET requests received so far
    fired,          \* vary scopes for which a matching event has been published
    made,           \* per cache key: the response that created the entry
    published,      \* the events published by the latest write
    raw,            \* the latest exchange of a request that is not an http GET
    root,           \* Signal.root: the callbacks of every node of the tree
    handles,        \* the unsubscribe handles that Signal.subscribe returned
    result,         \* what the latest call on the Signal did
    client_cache,   \* the cache shared by the sessions of the edge service
    exchange,       \* the latest outbound request of a session and its response
    inbound,        \* the inbound request of the edge service and its session
    context         \* the value of the context variable _headers in every request

vars == <<impl, entries, vary_headers, subs, db, req, ngets, fired, made, published,
          raw, root, handles, result, client_cache, exchange, inbound,
          context>>

signal_vars == <<root, handles, result>>

client_vars == <<client_cache, exchange, inbound, context>>

service_vars == <<impl, entries, vary_headers, subs, db, req, ngets, fired, made,
                  published, raw>>

-----------------------------------------------------------------------------
(* Bounds *)

MaxGets == 2        \* requests received in one behaviour

\* One GET is in flight at a time; the write handlers run at any point of it.
Slots == {1}

-----------------------------------------------------------------------------
(* Values *)

None == "None"      \* Python's None; no header in the model has this value

Users == {"alice", "bob"}
Roles == {"owner"}
P == "P"            \* the project id
A == "a1"           \* the area id

URL_PROJECTS == "/projects"
URL_PROJECT == "/projects/P"
URL_AREAS == "/projects/P/areas"
URL_AREA == "/projects/P/areas/a1"
URL_COLLABORATOR == "/projects/P/collaborators/alice"
Urls == {URL_PROJECTS, URL_PROJECT, URL_AREAS, URL_AREA}

EmptyMap == [x \in {} |-> None]

\* Headers.get(name): the lookup lowercases the name; a name is a token sequence
Lower(tok) ==
    CASE tok = "X-User" -> "x-user"
      [] tok = "X-Role" -> "x-role"
      [] OTHER -> tok

Get(headers, name) ==
    IF Len(name) = 1 /\ Lower(name[1]) \in DOMAIN headers
    THEN headers[Lower(name[1])]
    ELSE None

\* Headers.get with a literal name
GetH(headers, n) == IF n \in DOMAIN headers THEN headers[n] ELSE None

-----------------------------------------------------------------------------
(* str operations on token sequences *)

RECURSIVE lstrip(_)
lstrip(s) == IF s # <<>> /\ Head(s) = " " THEN lstrip(Tail(s)) ELSE s

RECURSIVE rstrip(_)
rstrip(s) == IF s # <<>> /\ s[Len(s)] = " " THEN rstrip(SubSeq(s, 1, Len(s) - 1)) ELSE s

strip(s) == rstrip(lstrip(s))

lower(s) == [i \in 1..Len(s) |-> Lower(s[i])]

\* s.split(sep): the pieces of s between the occurrences of the token sep
RECURSIVE split(_, _)
split(s, sep) ==
    IF \A i \in 1..Len(s) : s[i] # sep
    THEN <<s>>
    ELSE LET i == CHOOSE j \in 1..Len(s) : s[j] = sep /\ \A k \in 1..(j - 1) : s[k] # sep
         IN  <<SubSeq(s, 1, i - 1)>> \o split(SubSeq(s, i + 1, Len(s)), sep)

\* sep.join(parts)
RECURSIVE join(_, _)
join(parts, sep) ==
    IF parts = <<>> THEN <<>>
    ELSE IF Len(parts) = 1 THEN parts[1]
    ELSE parts[1] \o <<sep>> \o join(Tail(parts), sep)

RECURSIVE SelectNonEmpty(_)
SelectNonEmpty(parts) ==
    IF parts = <<>> THEN <<>>
    ELSE IF Head(parts) = <<>> THEN SelectNonEmpty(Tail(parts))
    ELSE <<Head(parts)>> \o SelectNonEmpty(Tail(parts))

-----------------------------------------------------------------------------
(* sha1(content).hexdigest() *)

Byte == 0..3        \* the body bytes the handlers produce

\* the digest as a number: injective on the byte strings of the model
RECURSIVE Digest(_)
Digest(content) ==
    IF content = <<>> THEN 0
    ELSE (Digest(SubSeq(content, 1, Len(content) - 1)) * 5) + content[Len(content)] + 1

sha1(content) == ToString(Digest(content))

\* variants of the join that hash one chunk only
LastBody(bodies) == IF bodies = <<>> THEN <<>> ELSE bodies[Len(bodies)].body

FirstBody(bodies) == IF bodies = <<>> THEN <<>> ELSE bodies[1].body

\* b"".join(body["body"] for body in response_body)
RECURSIVE JoinBodies(_)
JoinBodies(bodies) ==
    IF bodies = <<>> THEN <<>> ELSE Head(bodies).body \o JoinBodies(Tail(bodies))

-----------------------------------------------------------------------------
(* MemoryCache *)

_dump_vary(vary) ==
    join([i \in 1..Len(vary) |-> lower(strip(vary[i]))], ";")

_parse_vary(vary) ==
    LET parts == SelectNonEmpty(split(vary, ";"))
    IN  [i \in 1..Len(parts) |-> lower(strip(parts[i]))]

\* variant of the key that holds the names of the varying headers only
_create_key_names(url, request_headers, vary) ==
    {<<url>>} \cup {<<vary[i], None>> : i \in 1..Len(vary)}

_create_key(url, request_headers, vary) ==
    {<<url>>} \cup {<<vary[i], Get(request_headers, vary[i])>> : i \in 1..Len(vary)}

_get_key(vh, url, request_headers) ==
    _create_key(url, request_headers, IF url \in DOMAIN vh THEN vh[url] ELSE <<>>)

\* the value of the first Vary header of the response, as a 0/1 sequence
RECURSIVE FirstVary(_)
FirstVary(response_headers) ==
    IF response_headers = <<>> THEN <<>>
    ELSE IF Head(response_headers)[1] = "vary" THEN <<Head(response_headers)[2]>>
    ELSE FirstVary(Tail(response_headers))

\* store: the vary table after the call
store_vary(vh, url, response_headers) ==
    LET v == FirstVary(response_headers)
    IN  IF v = <<>> THEN vh
        ELSE [u \in DOMAIN vh \cup {url} |-> IF u = url THEN _parse_vary(v[1]) ELSE vh[u]]

Put(f, k, v) == [x \in DOMAIN f \cup {k} |-> IF x = k THEN v ELSE f[x]]

\* variant of store that computes the key before it records the Vary tuple
store_entries_old_vary(ents, vh, url, request_headers, response_headers, etag) ==
    Put(ents, _get_key(vh, url, request_headers),
        [etag |-> etag, headers |-> response_headers])

\* variant of store that keeps the newest entry only
store_entries_newest(ents, vh, url, request_headers, response_headers, etag) ==
    _get_key(store_vary(vh, url, response_headers), url, request_headers)
        :> [etag |-> etag, headers |-> response_headers]

\* variant of store that keeps the ETag of the response and not its headers
store_entries_no_headers(ents, vh, url, request_headers, response_headers, etag) ==
    Put(ents, _get_key(store_vary(vh, url, response_headers), url, request_headers),
        [etag |-> etag, headers |-> <<>>])

\* store: the entries after the call
store_entries(ents, vh, url, request_headers, response_headers, etag) ==
    LET key == _get_key(store_vary(vh, url, response_headers), url, request_headers)
    IN  Put(ents, key, [etag |-> etag, headers |-> response_headers])

\* get: a 0/1 sequence holding the entry
get(ents, vh, url, request_headers) ==
    LET key == _get_key(vh, url, request_headers)
    IN  IF key \in DOMAIN ents THEN <<ents[key]>> ELSE <<>>

\* variant of invalidate that pops nothing
invalidate_nothing(ents, key) == ents

invalidate(ents, key) == [k \in DOMAIN ents \ {key} |-> ents[k]]

-----------------------------------------------------------------------------
(* Subscriber *)

\* _match(received, expected) for mappings of scalars: every field of the
\* received event is compared with expected.get(field, ...), and ... matches
_match(received, expected) ==
    \A k \in DOMAIN received : k \in DOMAIN expected => received[k] = expected[k]

\* the set `callbacks` of one Subscriber: created empty, and no statement of
\* subscribe adds the callback it connects
callbacks(scope) == {}

\* callback(**mapping) of the subscription c, on st = [entries, subs]
callback(c, st, mapping) ==
    IF ~_match(mapping, c.filters)
    THEN st
    ELSE [entries |-> invalidate(st.entries, c.key),
          subs |-> st.subs \ {x \in st.subs : x.model = c.model /\ x \in callbacks(c.scope)}]

\* subscribe(model, **filters) inside the scope that _vary returned for key
subscribe(scope, key, model, filters) ==
    [scope |-> scope, key |-> key, model |-> model, filters |-> filters]

-----------------------------------------------------------------------------
(* The signal of a model class: every callback subscribed on the class is   *)
(* called with the event.                                                    *)

RECURSIVE notify(_, _, _)
notify(todo, st, mapping) ==
    IF todo = {} THEN st
    ELSE LET c == CHOOSE x \in todo : TRUE
         IN  notify(todo \ {c}, callback(c, st, mapping), mapping)

publish(st, model, mapping) ==
    notify({c \in st.subs : c.model = model}, st, mapping)

RECURSIVE publish_all(_, _)
publish_all(st, events) ==
    IF events = <<>> THEN st
    ELSE publish_all(publish(st, Head(events)[1], Head(events)[2]), Tail(events))

\* the filter matching of the data model: the event holds every field of the
\* filter with an equal value
Matches(event, filter) ==
    \A k \in DOMAIN filter : k \in DOMAIN event /\ event[k] = filter[k]

-----------------------------------------------------------------------------
(* Requests and messages *)

Name(tok) == <<tok>>

Hdrs(user, role, inm) ==
    [n \in {"x-user"} \cup (IF role = None THEN {} ELSE {"x-role"})
                      \cup (IF inm = None THEN {} ELSE {"if-none-match"}) |->
        CASE n = "x-user" -> user
          [] n = "x-role" -> role
          [] OTHER -> inm]

Start(status, headers) ==
    [type |-> "http.response.start", status |-> status, headers |-> headers]

Body(bytes, more) ==
    [type |-> "http.response.body", body |-> bytes, more_body |-> more]

\* the ways a response body reaches the sink: in one message or in two
Chunkings(body) ==
    {<<Body(body, FALSE)>>}
    \cup (IF Len(body) > 1
          THEN {<<Body(<<Head(body)>>, TRUE), Body(Tail(body), FALSE)>>}
          ELSE {})

IdleSlot ==
    [pc |-> "idle", url |-> "", headers |-> EmptyMap, scope |-> 0,
     out |-> <<>>, response_start |-> <<>>, response_body |-> <<>>,
     sent |-> <<>>, handled |-> FALSE, hit |-> <<>>, resp |-> <<>>]

\* the ETag header of a start message, as a 0/1 sequence
RECURSIVE ETagOf(_)
ETagOf(headers) ==
    IF headers = <<>> THEN <<>>
    ELSE IF Head(headers)[1] = "ETag" THEN <<Head(headers)[2]>>
    ELSE ETagOf(Tail(headers))

-----------------------------------------------------------------------------
(* projects/main.py: the GET handlers *)

JSON_EMPTY == <<0, 1>>                  \* []
JSON_ERROR == <<1, 1>>                  \* {"detail": ...}

visible(d, user) == d.project = "live" /\ user \in d.collabs

areas_json(d) == <<0>> \o (IF d.area = "live" THEN <<3>> ELSE <<>>) \o <<1>>

collaborators_json(d) ==
    <<0>> \o (IF "alice" \in d.collabs THEN <<2>> ELSE <<>>)
          \o (IF "bob" \in d.collabs THEN <<3>> ELSE <<>>) \o <<1>>

Error(status) ==
    [status |-> status, declared |-> FALSE, vary |-> <<>>, preds |-> {}, body |-> JSON_ERROR]

Ok(vary, preds, body) ==
    [status |-> 200, declared |-> TRUE, vary |-> vary, preds |-> preds, body |-> body]

\* the dependency project_role()
project_role(headers) == GetH(headers, "x-role") # None

get_projects(d, headers) ==
    LET user == GetH(headers, "x-user")
    IN  Ok(<<Name("x-user")>>,
           (IF visible(d, user) THEN {<<"Project", [project_id |-> P]>>} ELSE {})
               \cup {<<"Collaborator", [email |-> user]>>},
           IF visible(d, user) THEN <<0, 2, 1>> ELSE JSON_EMPTY)

get_project(d, headers) ==
    IF ~project_role(headers) THEN Error(401)
    ELSE IF d.project # "live" THEN Error(404)
    ELSE Ok(<<Name("x-role")>>,
            {<<"Project", [project_id |-> P]>>,
             <<"Area", [project_id |-> P]>>,
             <<"Collaborator", [project_id |-> P]>>},
            <<2>> \o areas_json(d) \o collaborators_json(d))

get_areas(d, headers) ==
    IF ~project_role(headers) THEN Error(401)
    ELSE IF d.project # "live" THEN Error(404)
    ELSE Ok(<<Name("x-role")>>,
            {<<"Project", [project_id |-> P, _action |-> "delete"]>>,
             <<"Area", [project_id |-> P]>>},
            areas_json(d))

get_area(d, headers) ==
    IF ~project_role(headers) THEN Error(401)
    ELSE IF d.area # "live" THEN Error(404)
    ELSE Ok(<<Name("x-role")>>,
            {<<"Area", [project_id |-> P, area_id |-> A]>>,
             <<"Zone", [area_id |-> A]>>},
            <<3>> \o JSON_EMPTY)

\* the route of one collaborator declares no varying header
get_collaborator(d, headers) ==
    IF ~project_role(headers) THEN Error(401)
    ELSE IF "alice" \notin d.collabs THEN Error(404)
    ELSE Ok(<<>>,
            {<<"Project", [project_id |-> P, _action |-> "delete"]>>,
             <<"Collaborator", [project_id |-> P, email |-> "alice"]>>},
            <<2>>)

route(url, d, headers) ==
    CASE url = URL_PROJECTS -> get_projects(d, headers)
      [] url = URL_PROJECT -> get_project(d, headers)
      [] url = URL_AREAS -> get_areas(d, headers)
      [] url = URL_COLLABORATOR -> get_collaborator(d, headers)
      [] OTHER -> get_area(d, headers)

\* cache.vary(request, response)(*vary_headers): the Vary header that
\* setdefault leaves on a response without one, and the key of the scope
_vary_header(vary) == <<"vary", _dump_vary(vary)>>

_vary_key(url, request_headers, vary) == _create_key(url, request_headers, vary)

-----------------------------------------------------------------------------
(* The events of the persistence layer: primary key columns and _action *)

project_event(action) == <<"Project", [project_id |-> P, _action |-> action]>>

area_event(action) == <<"Area", [area_id |-> A, project_id |-> P, _action |-> action]>>

collaborator_event(email, action) ==
    <<"Collaborator", [project_id |-> P, email |-> email, _action |-> action]>>

RECURSIVE collaborator_events(_, _)
collaborator_events(emails, action) ==
    IF emails = {} THEN <<>>
    ELSE LET e == CHOOSE x \in emails : TRUE
         IN  <<collaborator_event(e, action)>> \o collaborator_events(emails \ {e}, action)

\* the body bytes of the messages that reached the client
RECURSIVE Delivered(_)
Delivered(messages) ==
    IF messages = <<>> THEN <<>>
    ELSE (IF Head(messages).type = "http.response.body" THEN Head(messages).body ELSE <<>>)
             \o Delivered(Tail(messages))

-----------------------------------------------------------------------------
(* CachingSend.__call__ (the same statements in both services, up to the    *)
(* call that stores): the sink after the message, the messages forwarded to *)
(* the client, and the entry to store as a 0/1 sequence.                    *)

\* variant of the test that takes a response of any status
cacheable_any(start) == TRUE

\* `self.response_start["status"] == 200`
cacheable(start) == start.status = 200

\* variant of the sink that forwards the start message as soon as it arrives
CachingSend_eager(sink, message) ==
    IF message.type = "http.response.start"
    THEN [response_start |-> <<message>>, response_body |-> sink.response_body,
          forward |-> <<message>>, stored |-> <<>>, error |-> FALSE]
    ELSE IF message.type # "http.response.body"
            \/ (~message.more_body /\ sink.response_start = <<>>)
    THEN [response_start |-> sink.response_start, response_body |-> sink.response_body,
          forward |-> <<>>, stored |-> <<>>, error |-> TRUE]
    ELSE LET bodies == Append(sink.response_body, message)
             etag == sha1(JoinBodies(bodies))
         IN  [response_start |-> sink.response_start, response_body |-> bodies,
              forward |-> IF message.more_body THEN <<>> ELSE bodies,
              stored |-> IF ~message.more_body /\ cacheable(sink.response_start[1])
                         THEN <<[etag |-> etag,
                                 headers |-> Append(sink.response_start[1].headers,
                                                    <<"ETag", etag>>)]>>
                         ELSE <<>>,
              error |-> FALSE]

CachingSend(sink, message) ==
    IF message.type = "http.response.start"
    THEN [response_start |-> <<message>>, response_body |-> sink.response_body,
          forward |-> <<>>, stored |-> <<>>, error |-> FALSE]
    ELSE IF message.type # "http.response.body"
    THEN [response_start |-> sink.response_start, response_body |-> sink.response_body,
          forward |-> <<>>, stored |-> <<>>, error |-> TRUE]
    ELSE LET bodies == Append(sink.response_body, message)
         IN  IF message.more_body
             THEN [response_start |-> sink.response_start, response_body |-> bodies,
                   forward |-> <<>>, stored |-> <<>>, error |-> FALSE]
             ELSE IF sink.response_start = <<>>
             THEN [response_start |-> sink.response_start, response_body |-> bodies,
                   forward |-> <<>>, stored |-> <<>>, error |-> TRUE]
             ELSE IF cacheable(sink.response_start[1])
             THEN LET etag == sha1(JoinBodies(bodies))
                      start == [sink.response_start[1] EXCEPT
                                   !.headers = Append(@, <<"ETag", etag>>)]
                  IN  [response_start |-> <<start>>, response_body |-> bodies,
                       forward |-> <<start>> \o bodies,
                       stored |-> <<[etag |-> etag, headers |-> start.headers]>>,
                       error |-> FALSE]
             ELSE [response_start |-> sink.response_start, response_body |-> bodies,
                   forward |-> sink.response_start \o bodies, stored |-> <<>>,
                   error |-> FALSE]

-----------------------------------------------------------------------------
(* CachingMiddleware *)

\* the key projects' middleware builds: (str(url),)
mapping_key(url) == <<url>>

\* the key under which the installed middleware looks a request up
lookup_key(url, headers) ==
    IF impl = "memory" THEN _get_key(vary_headers, url, headers) ELSE mapping_key(url)

\* self.cache.get(...) of the installed middleware
lookup(url, headers) ==
    IF impl = "memory" THEN get(entries, vary_headers, url, headers)
    ELSE IF mapping_key(url) \in DOMAIN entries THEN <<entries[mapping_key(url)]>> ELSE <<>>

\* variant of not_modified that sends no headers
not_modified_bare(entry) ==
    <<Start(304, <<>>), Body(<<>>, FALSE)>>

not_modified(entry) ==
    <<Start(304, entry.headers), Body(<<>>, FALSE)>>

\* variant of the test that answers 304 whenever the key has an entry
entry_exists(entry, headers) == entry # <<>>

\* `entry and entry["etag"] == request.headers.get("if-none-match")`
etag_matches(entry, headers) ==
    entry # <<>> /\ entry[1].etag = GetH(headers, "if-none-match")

\* __call__ for a GET up to the call of the app
Request(s, url, headers) ==
    /\ req[s].pc \in {"idle", "done"}
    /\ ngets < MaxGets
    /\ ngets' = ngets + 1
    /\ LET entry == lookup(url, headers)
           base == [IdleSlot EXCEPT !.url = url, !.headers = headers, !.scope = ngets + 1]
       IN  IF etag_matches(entry, headers)
           THEN req' = [req EXCEPT ![s] = [base EXCEPT !.pc = "done",
                                                       !.sent = not_modified(entry[1]),
                                                       !.hit = <<made[lookup_key(url, headers)]>>]]
           ELSE req' = [req EXCEPT ![s] = [base EXCEPT !.pc = "app"]]
    /\ UNCHANGED <<impl, entries, vary_headers, subs, db, fired, made, published>>
    /\ UNCHANGED <<raw, signal_vars, client_vars>>

\* the app of projects/main.py answers the request: the handler reads the
\* rows, declares its Vary headers and its invalidation filters, and returns
Handle(s) ==
    /\ impl = "memory"
    /\ req[s].pc = "app"
    /\ LET r == req[s]
           res == route(r.url, db, r.headers)
           key == _vary_key(r.url, r.headers, res.vary)
           hdrs == IF res.declared THEN <<_vary_header(res.vary)>> ELSE <<>>
       IN  /\ \E chunks \in Chunkings(res.body) :
                 req' = [req EXCEPT ![s] = [r EXCEPT !.pc = "sending", !.handled = TRUE,
                                               !.out = <<Start(res.status, hdrs)>> \o chunks,
                                               !.resp = <<Start(res.status, hdrs)>> \o chunks]]
           /\ subs' = subs \cup {subscribe(r.scope, key, p[1], p[2]) : p \in res.preds}
    /\ UNCHANGED <<impl, entries, vary_headers, db, ngets, fired, made, published>>
    /\ UNCHANGED <<raw, signal_vars, client_vars>>

\* an app behind projects' middleware answers the request
AppBodies == {JSON_EMPTY, <<0, 2, 1>>}

AppRespond(s) ==
    /\ impl = "mapping"
    /\ req[s].pc = "app"
    /\ \E status \in {200, 404}, body \in AppBodies :
         \E chunks \in Chunkings(body) :
           LET hdrs == IF req[s].url = URL_PROJECTS
                       THEN <<<<"vary", Name("x-user")>>>> ELSE <<>>
           IN  req' = [req EXCEPT ![s] = [@ EXCEPT !.pc = "sending", !.handled = TRUE,
                                             !.out = <<Start(status, hdrs)>> \o chunks,
                                             !.resp = <<Start(status, hdrs)>> \o chunks]]
    /\ UNCHANGED <<impl, entries, vary_headers, subs, db, ngets, fired, made, published>>
    /\ UNCHANGED <<raw, signal_vars, client_vars>>

\* the app sends its next message to the sink
Send(s) ==
    /\ req[s].pc = "sending"
    /\ req[s].out # <<>>
    /\ LET r == req[s]
           k == CachingSend(r, Head(r.out))
           rest == Tail(r.out)
           vh == IF k.stored # <<>> /\ impl = "memory"
                 THEN store_vary(vary_headers, r.url, k.stored[1].headers)
                 ELSE vary_headers
           key == IF impl = "memory" THEN _get_key(vh, r.url, r.headers)
                  ELSE mapping_key(r.url)
       IN  /\ req' = [req EXCEPT ![s] = [r EXCEPT
                         !.out = rest,
                         !.response_start = k.response_start,
                         !.response_body = k.response_body,
                         !.sent = @ \o k.forward,
                         !.pc = IF rest = <<>> THEN "done" ELSE "sending"]]
           /\ vary_headers' = vh
           /\ IF k.stored = <<>>
              THEN UNCHANGED <<entries, made>>
              ELSE /\ entries' =
                        IF impl = "memory"
                        THEN store_entries(entries, vary_headers, r.url, r.headers,
                                           k.stored[1].headers, k.stored[1].etag)
                        ELSE Put(entries, mapping_key(r.url), k.stored[1])
                   /\ made' = Put(made, key,
                                  [scope |-> r.scope, user |-> GetH(r.headers, "x-user"),
                                   content |-> Delivered(k.forward)])
    /\ UNCHANGED <<impl, subs, db, ngets, fired, published>>
    /\ UNCHANGED <<raw, signal_vars, client_vars>>

-----------------------------------------------------------------------------
(* CachingMiddleware.__call__ for a request that is not a GET.  The whole    *)
(* call is one step, taken like a GET when no request is in flight: the      *)
(* handlers that publish events are the write handlers below, the handler    *)
(* here publishes nothing.                                                   *)

\* variant of the test that looks at the scope type only
passes_non_http(type, method) == type # "http"

\* `scope["type"] != "http" or scope["method"] != "GET"`
passes(type, method) == type # "http" \/ method # "GET"

\* the app sends all its messages to a CachingSend
RECURSIVE send_all(_, _)
send_all(sink, messages) ==
    IF messages = <<>> THEN sink
    ELSE LET k == CachingSend(sink, Head(messages))
         IN  IF k.error THEN [sink EXCEPT !.error = TRUE]
             ELSE send_all([response_start |-> k.response_start,
                            response_body |-> k.response_body,
                            sent |-> sink.sent \o k.forward,
                            stored |-> sink.stored \o k.stored,
                            error |-> FALSE], Tail(messages))

\* __call__: what the client is sent and the cache after the call
__call__(type, method, url, headers, response) ==
    IF passes(type, method)
    THEN [sent |-> response, entries |-> entries, vary_headers |-> vary_headers]
    ELSE LET entry == lookup(url, headers)
             k == send_all([response_start |-> <<>>, response_body |-> <<>>,
                            sent |-> <<>>, stored |-> <<>>, error |-> FALSE], response)
             e == k.stored[Len(k.stored)]
         IN  IF etag_matches(entry, headers)
             THEN [sent |-> not_modified(entry[1]), entries |-> entries,
                   vary_headers |-> vary_headers]
             ELSE IF k.stored = <<>>
             THEN [sent |-> k.sent, entries |-> entries, vary_headers |-> vary_headers]
             ELSE IF impl = "memory"
             THEN [sent |-> k.sent,
                   entries |-> store_entries(entries, vary_headers, url, headers,
                                             e.headers, e.etag),
                   vary_headers |-> store_vary(vary_headers, url, e.headers)]
             ELSE [sent |-> k.sent, entries |-> Put(entries, mapping_key(url), e),
                   vary_headers |-> vary_headers]

PassThrough(type, method, url, headers, response) ==
    /\ \A s \in Slots : req[s].pc \in {"idle", "done"}
    /\ ngets < MaxGets
    /\ ngets' = ngets + 1
    /\ LET k == __call__(type, method, url, headers, response)
       IN  /\ raw' = [type |-> type, method |-> method, url |-> url, headers |-> headers,
                      response |-> response, sent |-> k.sent]
           /\ entries' = k.entries
           /\ vary_headers' = k.vary_headers
    /\ UNCHANGED <<impl, subs, db, req, fired, made, published>>
    /\ UNCHANGED <<signal_vars, client_vars>>

-----------------------------------------------------------------------------
(* projects/main.py: the write handlers.  Each mutation publishes its event, *)
(* and a cascading delete one event per removed row.                         *)

Write(d, events) ==
    /\ impl = "memory"
    /\ db' = d
    /\ LET st == publish_all([entries |-> entries, subs |-> subs], events)
       IN  /\ entries' = st.entries
           /\ subs' = st.subs
           /\ made' = [k \in DOMAIN st.entries |-> made[k]]
           /\ published' = [events |-> events,
                            evicted |-> DOMAIN entries \ DOMAIN st.entries]
    /\ fired' = fired \cup {c.scope : c \in
                   {x \in subs : \E i \in 1..Len(events) :
                        x.model = events[i][1] /\ Matches(events[i][2], x.filters)}}
    /\ UNCHANGED <<impl, vary_headers, req, ngets>>
    /\ UNCHANGED <<raw, signal_vars, client_vars>>

post_projects(user) ==
    /\ db.project = "fresh"
    /\ Write([db EXCEPT !.project = "live", !.collabs = {user}],
             <<project_event("create"), collaborator_event(user, "create")>>)

patch_collaborators(email) ==
    /\ db.project = "live"
    /\ email \notin db.collabs
    /\ Write([db EXCEPT !.collabs = @ \cup {email}],
             <<collaborator_event(email, "update")>>)

post_areas ==
    /\ db.project = "live"
    /\ db.area = "fresh"
    /\ Write([db EXCEPT !.area = "live"], <<area_event("create")>>)

delete_area ==
    /\ db.project = "live"
    /\ db.area = "live"
    /\ Write([db EXCEPT !.area = "gone"], <<area_event("delete")>>)

delete_project ==
    /\ db.project = "live"
    /\ Write([db EXCEPT !.project = "gone", !.collabs = {},
                        !.area = IF @ = "live" THEN "gone" ELSE @],
             <<project_event("delete")>>
                 \o (IF db.area = "live" THEN <<area_event("delete")>> ELSE <<>>)
                 \o collaborator_events(db.collabs, "delete"))

-----------------------------------------------------------------------------
(* Specification *)

\* no request other than a GET was received yet
NoRaw == [type |-> "", method |-> "", url |-> "", headers |-> EmptyMap,
          response |-> <<>>, sent |-> <<>>]

\* Signal.__init__: the root node without children and callbacks
EmptyRoot == (<<>> :> {})

NoResult == [op |-> "none"]

\* the parts of the state that a specification of one component leaves alone
InitSignal == root = EmptyRoot /\ handles = EmptyMap /\ result = NoResult

\* no request was sent yet; received maps a URL to the ETag of the last 200
\* response with an ETag that a GET of the URL was answered with
NoExchange == [op |-> "none", n |-> 0, received |-> EmptyMap]

\* no inbound request yet, no session
NoInbound == [pc |-> "idle", session |-> "none", response |-> <<>>, raised |-> FALSE]

\* two requests are served at a time, each in a context of its own in which
\* _headers is not set (a 0/1 sequence); said is what the request set so far
Tasks == {1, 2}

NoContext == [value |-> [t \in Tasks |-> <<>>], said |-> [t \in Tasks |-> EmptyMap],
              pc |-> [t \in Tasks |-> "new"]]

InitClient ==
    /\ client_cache = EmptyMap
    /\ exchange = NoExchange
    /\ inbound = NoInbound
    /\ context = NoContext

\* the requests the edge service sends: x-user always, x-role for the URLs of
\* one project, and If-None-Match absent, equal to the ETag stored for the
\* request, or another ETag
OTHER_ETAG == sha1(<<>>)

RequestHeaders(url) ==
    UNION {{Hdrs(user, role, inm) :
                inm \in {None, OTHER_ETAG} \cup
                    (LET key == lookup_key(url, Hdrs(user, role, None))
                     IN  IF key \in DOMAIN entries THEN {entries[key].etag} ELSE {})} :
           user \in (IF url = URL_PROJECTS THEN Users ELSE {"alice"}),
           role \in (IF url = URL_PROJECTS THEN {None} ELSE Roles)}

\* the requests that are not GETs: a POST and a websocket connection of alice
\* to the URL of the project list, without If-None-Match or with the stored ETag
Scopes == {<<"http", "POST">>, <<"websocket", None>>}

PassHeaders(url) ==
    {h \in RequestHeaders(url) :
        GetH(h, "x-user") = "alice" /\ GetH(h, "if-none-match") # OTHER_ETAG}

AppResponse(type) ==
    IF type = "http" THEN <<Start(200, <<>>), Body(JSON_EMPTY, FALSE)>>
    ELSE <<[type |-> "websocket.close"]>>

Init ==
    /\ impl \in {"memory", "mapping"}
    /\ entries = EmptyMap
    /\ vary_headers = EmptyMap
    /\ subs = {}
    /\ db = [project |-> "fresh", area |-> "fresh", collabs |-> {}]
    /\ req = [s \in Slots |-> IdleSlot]
    /\ ngets = 0
    /\ fired = {}
    /\ made = EmptyMap
    /\ published = [events |-> <<>>, evicted |-> {}]
    /\ raw = NoRaw
    /\ InitSignal
    /\ InitClient

Next ==
    \/ \E s \in Slots, url \in Urls : \E headers \in RequestHeaders(url) :
           Request(s, url, headers)
    \/ \E s \in Slots : Handle(s)
    \/ \E s \in Slots : AppRespond(s)
    \/ \E s \in Slots : Send(s)
    \/ \E scope \in Scopes : \E headers \in PassHeaders(URL_PROJECTS) :
           PassThrough(scope[1], scope[2], URL_PROJECTS, headers, AppResponse(scope[1]))
    \/ \E user \in Users : post_projects(user)
    \/ \E email \in Users : patch_collaborators(email)
    \/ post_areas
    \/ delete_area
    \/ delete_project

Spec == Init /\ [][Next]_vars

-----------------------------------------------------------------------------
(* CachingSend.__call__ message by message.  The app calls the sink with one *)
(* message at a time; the call that completes the response stores the entry  *)
(* and then awaits self._send for the start message and for every body       *)
(* message.  The task of the request can be cancelled wherever it is         *)
(* suspended: in the app between two messages and in each await of _send.    *)

\* a message that is neither the start nor a body of the response
Trailers == [type |-> "http.response.trailers"]

\* what an app may call the sink with, well-formed or not
SinkResponses ==
    LET hdrs == <<<<"vary", Name("x-user")>>>>
    IN  UNION {{<<Start(status, hdrs)>> \o chunks,
                <<Start(status, hdrs)>> \o chunks \o <<Trailers>>,
                <<Start(status, hdrs)>> \o chunks \o <<Body(<<3>>, FALSE)>>,
                <<Head(chunks)>> \o <<Start(status, hdrs)>> \o Tail(chunks),
                chunks,
                <<Start(status, hdrs), Trailers>>} :
               status \in {200, 404}, chunks \in Chunkings(<<0, 2, 1>>)}

\* CachingMiddleware.__call__ for a GET that does not validate: the app is
\* called with a new CachingSend
SinkBegin(s, url, headers, response) ==
    /\ req[s].pc \in {"idle", "done", "error", "cancelled", "failed"}
    /\ req' = [req EXCEPT ![s] =
                 [pending |-> <<>>, complete |-> FALSE,
                  before |-> [entries |-> entries, vary_headers |-> vary_headers]]
                 @@ [IdleSlot EXCEPT !.pc = "sending", !.url = url, !.headers = headers,
                                     !.handled = TRUE, !.out = response, !.resp = response]]
    /\ UNCHANGED <<impl, entries, vary_headers, subs, db, ngets, fired, made, published>>
    /\ UNCHANGED <<raw, signal_vars, client_vars>>

\* one call of the sink up to its first await or its raise
SinkReceive(s) ==
    /\ req[s].pc = "sending"
    /\ req[s].out # <<>>
    /\ LET r == req[s]
           k == CachingSend(r, Head(r.out))
           rest == Tail(r.out)
       IN  IF k.error
           THEN /\ req' = [req EXCEPT ![s] = [r EXCEPT !.pc = "error", !.out = rest]]
                /\ UNCHANGED <<entries, vary_headers>>
           ELSE /\ req' = [req EXCEPT ![s] = [r EXCEPT
                             !.out = rest,
                             !.response_start = k.response_start,
                             !.response_body = k.response_body,
                             !.pending = k.forward,
                             !.complete = @ \/ (Head(r.out).type = "http.response.body"
                                                  /\ ~Head(r.out).more_body),
                             !.pc = IF k.forward # <<>> THEN "forwarding"
                                    ELSE IF rest = <<>> THEN "done" ELSE "sending"]]
                /\ IF k.stored = <<>>
                   THEN UNCHANGED <<entries, vary_headers>>
                   ELSE IF impl = "memory"
                   THEN /\ vary_headers' = store_vary(vary_headers, r.url, k.stored[1].headers)
                        /\ entries' = store_entries(entries, vary_headers, r.url, r.headers,
                                                    k.stored[1].headers, k.stored[1].etag)
                   ELSE /\ vary_headers' = vary_headers
                        /\ entries' = Put(entries, mapping_key(r.url), k.stored[1])
    /\ UNCHANGED <<impl, subs, db, ngets, fired, made, published>>
    /\ UNCHANGED <<raw, signal_vars, client_vars>>

\* `await self._send(...)` returns: the next message reached the client
SinkForward(s) ==
    /\ req[s].pc = "forwarding"
    /\ LET r == req[s]
           rest == Tail(r.pending)
       IN  req' = [req EXCEPT ![s] = [r EXCEPT
                     !.sent = Append(@, Head(r.pending)),
                     !.pending = rest,
                     !.pc = IF rest # <<>> THEN "forwarding"
                            ELSE IF r.out = <<>> THEN "done" ELSE "sending"]]
    /\ UNCHANGED <<impl, entries, vary_headers, subs, db, ngets, fired, made, published>>
    /\ UNCHANGED <<raw, signal_vars, client_vars>>

\* the task of the request is cancelled where it is suspended
SinkCancel(s) ==
    /\ req[s].pc \in {"sending", "forwarding"}
    /\ req' = [req EXCEPT ![s].pc = "cancelled"]
    /\ UNCHANGED <<impl, entries, vary_headers, subs, db, ngets, fired, made, published>>
    /\ UNCHANGED <<raw, signal_vars, client_vars>>

\* the handler raises between two messages: `await self.app(...)` raises, and
\* nothing catches the exception or forwards what the sink holds
SinkFail(s) ==
    /\ req[s].pc = "sending"
    /\ req' = [req EXCEPT ![s].pc = "failed"]
    /\ UNCHANGED <<impl, entries, vary_headers, subs, db, ngets, fired, made, published>>
    /\ UNCHANGED <<raw, signal_vars, client_vars>>

NextSink ==
    \/ \E s \in Slots, url \in {URL_PROJECTS, URL_AREAS}, user \in Users :
         \E response \in SinkResponses :
            SinkBegin(s, url, Hdrs(user, None, None), response)
    \/ \E s \in Slots : SinkReceive(s)
    \/ \E s \in Slots : SinkForward(s)
    \/ \E s \in Slots : SinkCancel(s)
    \/ \E s \in Slots : SinkFail(s)

SpecSink == Init /\ [][NextSink]_vars

-----------------------------------------------------------------------------
(* One subscription of GET /nodes or GET /nodes/{node_uuid}: the callback    *)
(* that Subscriber.subscribe connects to the Node class is called with one  *)
(* event.                                                                    *)

URL_NODES == "/nodes"

Fields == {"node_uuid", "tags", "_action"}

FieldValues(f) ==
    CASE f = "node_uuid" -> {"n1", "n2"}
      [] f = "tags" -> {"zone1", "zone2"}
      [] OTHER -> {"update", "delete"}

\* the keyword mappings over Fields; the value of tags stands for one
\* {project_id, zone_id} mapping
Mappings ==
    UNION {{m \in [D -> UNION {FieldValues(f) : f \in Fields}] :
                \A f \in D : m[f] \in FieldValues(f)} : D \in SUBSET Fields}

\* the filters a handler may pass to subscribe
Filters == Mappings

\* the events of the Node class: the primary key and _action, with or without
\* further columns
Events == {m \in Mappings : {"node_uuid", "_action"} \subseteq DOMAIN m}

NodesKey == _vary_key(URL_NODES, EmptyMap, <<>>)

NodesEntry ==
    [etag |-> sha1(JSON_EMPTY),
     headers |-> <<_vary_header(<<>>), <<"ETag", sha1(JSON_EMPTY)>>>>]

InitSubscriber ==
    /\ impl = "memory"
    /\ entries = Put(EmptyMap, NodesKey, NodesEntry)
    /\ vary_headers = Put(EmptyMap, URL_NODES, <<>>)
    /\ \E filters \in Filters : subs = {subscribe(1, NodesKey, "Node", filters)}
    /\ db = [project |-> "fresh", area |-> "fresh", collabs |-> {}]
    /\ req = [s \in Slots |-> IdleSlot]
    /\ ngets = 0
    /\ fired = {}
    /\ made = EmptyMap
    /\ published = [events |-> <<>>, evicted |-> {}]
    /\ raw = NoRaw
    /\ InitSignal
    /\ InitClient

\* callback(**mapping) of the subscription c
Deliver(c, mapping) ==
    /\ published.events = <<>>
    /\ LET st == callback(c, [entries |-> entries, subs |-> subs], mapping)
       IN  /\ entries' = st.entries
           /\ subs' = st.subs
           /\ published' = [events |-> <<<<c.model, mapping>>>>,
                            evicted |-> DOMAIN entries \ DOMAIN st.entries]
    /\ UNCHANGED <<impl, vary_headers, db, req, ngets, fired, made>>
    /\ UNCHANGED <<raw, signal_vars, client_vars>>

NextSubscriber == \E c \in subs, mapping \in Events : Deliver(c, mapping)

SpecSubscriber == InitSubscriber /\ [][NextSubscriber]_vars

-----------------------------------------------------------------------------
(* MemoryCache.store and MemoryCache.get under a recorded Vary tuple *)

KeyUrls == {URL_PROJECTS, URL_PROJECT}

VaryTuples ==
    {<<>>, <<Name("x-user")>>, <<Name("x-role")>>, <<Name("x-user"), Name("x-role")>>}

HeaderValues(n) == IF n = "x-user" THEN Users ELSE {"owner", "viewer"}

\* request headers: each of x-user and x-role present or missing
KeyHeaders ==
    UNION {{h \in [D -> Users \cup {"owner", "viewer"}] :
                \A n \in D : h[n] \in HeaderValues(n)} : D \in SUBSET {"x-user", "x-role"}}

KeyRequests == [url : KeyUrls, headers : KeyHeaders]

InitKey ==
    /\ impl = "memory"
    /\ entries = EmptyMap
    /\ vary_headers \in [KeyUrls -> VaryTuples]
    /\ subs = {}
    /\ db = [project |-> "fresh", area |-> "fresh", collabs |-> {}]
    /\ req = [s \in Slots |-> IdleSlot]
    /\ ngets = 0
    /\ fired = {}
    /\ made = EmptyMap
    /\ published = [events |-> <<>>, evicted |-> {}]
    /\ raw = NoRaw
    /\ InitSignal
    /\ InitClient

\* store(url, request_headers, response_headers, etag) for a response without
\* a Vary header
KeyStore(r) ==
    /\ ngets < MaxGets
    /\ ngets' = ngets + 1
    /\ LET etag == sha1(JSON_EMPTY)
           response_headers == <<<<"ETag", etag>>>>
           vh == store_vary(vary_headers, r.url, response_headers)
       IN  /\ vary_headers' = vh
           /\ entries' = store_entries(entries, vary_headers, r.url, r.headers,
                                       response_headers, etag)
           /\ made' = Put(made, _get_key(vh, r.url, r.headers), r)
    /\ UNCHANGED <<impl, subs, db, req, fired, published>>
    /\ UNCHANGED <<raw, signal_vars, client_vars>>

NextKey == \E r \in KeyRequests : KeyStore(r)

SpecKey == InitKey /\ [][NextKey]_vars

-----------------------------------------------------------------------------
(* MemoryCache: store, get and invalidate called as the middleware and the   *)
(* subscribers call them.  The Vary header of a stored response is the one   *)
(* the handler of the URL declares; made[key] is the last store under the    *)
(* key, with every store made under it since the key was last invalidated.   *)

\* cache_vary("x-user") of get_projects, cache_vary("x-role") of get_project
DeclaredVary(url) == IF url = URL_PROJECTS THEN <<Name("x-user")>> ELSE <<Name("x-role")>>

StoreBodies == {JSON_EMPTY, <<0, 2, 1>>}

\* the requests of the edge service: x-user always, x-role missing or owner
StoreRequests ==
    {r \in KeyRequests :
        /\ "x-user" \in DOMAIN r.headers
        /\ "x-role" \in DOMAIN r.headers => r.headers["x-role"] = "owner"}

InitStore ==
    /\ impl = "memory"
    /\ entries = EmptyMap
    /\ vary_headers = EmptyMap
    /\ subs = {}
    /\ db = [project |-> "fresh", area |-> "fresh", collabs |-> {}]
    /\ req = [s \in Slots |-> IdleSlot]
    /\ ngets = 0
    /\ fired = {}
    /\ made = EmptyMap
    /\ published = [events |-> <<>>, evicted |-> {}]
    /\ raw = NoRaw
    /\ InitSignal
    /\ InitClient

\* store(url, request_headers, response_headers, etag), as CachingSend calls it
Store(r, body) ==
    /\ ngets < MaxGets
    /\ ngets' = ngets + 1
    /\ LET etag == sha1(body)
           response_headers == <<_vary_header(DeclaredVary(r.url)), <<"ETag", etag>>>>
           vh == store_vary(vary_headers, r.url, response_headers)
           key == _get_key(vh, r.url, r.headers)
           before == IF key \in DOMAIN made THEN made[key].stores ELSE {}
       IN  /\ vary_headers' = vh
           /\ entries' = store_entries(entries, vary_headers, r.url, r.headers,
                                       response_headers, etag)
           /\ made' = Put(made, key,
                          [etag |-> etag, n |-> ngets + 1,
                           stores |-> before \cup {[url |-> r.url, headers |-> r.headers,
                                                    n |-> ngets + 1]}])
           /\ result' = [op |-> "store", key |-> key]
    /\ UNCHANGED <<impl, subs, db, req, fired, published>>
    /\ UNCHANGED <<raw, root, handles, client_vars>>

\* get(url, request_headers)
Lookup(r) ==
    /\ result' = [op |-> "get", key |-> _get_key(vary_headers, r.url, r.headers),
                  entry |-> get(entries, vary_headers, r.url, r.headers)]
    /\ UNCHANGED service_vars
    /\ UNCHANGED <<root, handles, client_vars>>

\* invalidate(key) with the key of a request, stored or not
Invalidate(r) ==
    /\ LET key == _get_key(vary_headers, r.url, r.headers)
       IN  /\ entries' = invalidate(entries, key)
           /\ made' = [k \in DOMAIN made \ {key} |-> made[k]]
           /\ result' = [op |-> "invalidate", key |-> key]
    /\ UNCHANGED <<impl, vary_headers, subs, db, req, ngets, fired, published>>
    /\ UNCHANGED <<raw, root, handles, client_vars>>

NextStore ==
    \/ \E r \in StoreRequests, body \in StoreBodies : Store(r, body)
    \/ \E r \in StoreRequests : Lookup(r)
    \/ \E r \in StoreRequests : Invalidate(r)

SpecStore == InitStore /\ [][NextStore]_vars

\* the role-protected routes asked with and without x-role, and with the
\* ETag of any stored entry
NextRole ==
    \/ \E user \in Users : post_projects(user)
    \/ \E s \in Slots, url \in {URL_PROJECT, URL_COLLABORATOR}, role \in {None, "owner"} :
         \E inm \in {None} \cup {entries[k].etag : k \in DOMAIN entries} :
            Request(s, url, Hdrs("alice", role, inm))
    \/ \E s \in Slots : Handle(s)
    \/ \E s \in Slots : Send(s)

SpecRole == InitStore /\ [][NextRole]_vars

-----------------------------------------------------------------------------
(* MemoryCache.vary and MemoryCache.store for one response: the handler may  *)
(* set a Vary header itself, may call the function vary returns with header  *)
(* names, and the sink then stores the response.                             *)

\* Vary headers a handler sets: the two list forms, one name, and *
PresetVary ==
    {<<"x-user", ";", "x-role">>, <<"x-user", ",", "x-role">>,
     <<"x-user", ",", " ", "x-role">>, <<"x-role">>, <<"*">>}

\* header names a handler passes to _vary(*vary_headers)
DeclaredNames ==
    {<<>>, <<Name("x-user")>>, <<Name("X-User")>>, <<<<" ", "x-user", " ">>>>,
     <<Name("x-user"), Name("x-role")>>, <<Name("*")>>}

\* preset and declared are 0/1 sequences: the handler set the header or not,
\* called _vary or not
VaryStore(r, preset, declared) ==
    /\ ngets < MaxGets
    /\ ngets' = ngets + 1
    /\ LET etag == sha1(JSON_EMPTY)
           vary == IF preset # <<>> THEN preset
                   ELSE IF declared # <<>> THEN <<_dump_vary(declared[1])>>
                   ELSE <<>>
           response_headers ==
               (IF vary = <<>> THEN <<>> ELSE <<<<"vary", vary[1]>>>>) \o <<<<"ETag", etag>>>>
           cache_key == IF declared = <<>> THEN <<>>
                        ELSE <<_vary_key(r.url, r.headers, declared[1])>>
           vh == store_vary(vary_headers, r.url, response_headers)
       IN  /\ vary_headers' = vh
           /\ entries' = store_entries(entries, vary_headers, r.url, r.headers,
                                       response_headers, etag)
           /\ result' = [op |-> "vary", url |-> r.url, headers |-> r.headers,
                         vary |-> vary, bound |-> cache_key,
                         key |-> _get_key(vh, r.url, r.headers)]
    /\ UNCHANGED <<impl, subs, db, req, fired, made, published>>
    /\ UNCHANGED <<raw, root, handles, client_vars>>

NextVary ==
    \E r \in {x \in StoreRequests : x.url = URL_PROJECTS /\ x.headers["x-user"] = "alice"} :
        \E preset \in {<<>>} \cup {<<v>> : v \in PresetVary},
           declared \in {<<>>} \cup {<<d>> : d \in DeclaredNames} :
            VaryStore(r, preset, declared)

SpecVary == InitStore /\ [][NextVary]_vars

-----------------------------------------------------------------------------
(* bff/client.py: the outbound session.  One step is one request of the      *)
(* session: CachingRequest.send, the answer of the upstream service, and     *)
(* CachingResponse.start.  The cache belongs to the application and is       *)
(* shared by the sessions of all inbound requests.                           *)

\* CIMultiDict.update: the given headers replace the headers of the same name
headers_update(headers, other) ==
    [n \in DOMAIN headers \cup DOMAIN other |->
        IF n \in DOMAIN other THEN other[n] ELSE headers[n]]

\* cache.get(url, headers) of the cache that main.py constructs: the entry
\* keyed by the target URL, as a 0/1 sequence
client_get(cache, url, headers) ==
    IF <<url>> \in DOMAIN cache THEN <<cache[<<url>>]>> ELSE <<>>

\* CachingRequest.send: the headers that are sent
CachingRequest_send(cache, method, url, headers, ctx) ==
    LET h == headers_update(headers, ctx)
        entry == client_get(cache, url, h)
    IN  IF method = "GET" /\ entry # <<>>
        THEN Put(h, "if-none-match", entry[1].etag)
        ELSE h

\* variant of the key that is the URL itself
response_key_bare(url) == url

\* `key = (self.url,)`
response_key(url) == <<url>>

\* CachingResponse.start: the cache after the call and the response that the
\* caller observes
CachingResponse_start(cache, method, url, response) ==
    IF method # "GET" THEN [cache |-> cache, response |-> response]
    ELSE LET key == response_key(url)
             stored == IF response.status = 200 /\ GetH(response.headers, "etag") # None
                       THEN Put(cache, key, [etag |-> response.headers["etag"],
                                             response |-> response])
                       ELSE cache
         IN  IF response.status = 304 /\ key \in DOMAIN stored
             THEN [cache |-> stored,
                   response |-> [response EXCEPT
                                   !.status = stored[key].response.status,
                                   !.reason = stored[key].response.reason,
                                   !.body = stored[key].response.body]]
             ELSE [cache |-> stored, response |-> response]

\* the answers of the upstream service to a request with the headers sent: a
\* 200 with or without ETag, a 304 when the request was conditional, a 404,
\* a 503;
\* the server stamps every answer with its date
Upstream(sent) ==
    {[status |-> 200, reason |-> "OK", headers |-> ("etag" :> e) @@ ("date" :> d),
      body |-> JSON_EMPTY] : e \in {"v1", "v2"}, d \in {"t1", "t2"}}
    \cup {[status |-> 200, reason |-> "OK", headers |-> ("date" :> "t1"),
           body |-> <<0, 2, 1>>],
          [status |-> 404, reason |-> "Not Found", headers |-> ("date" :> "t1"),
           body |-> JSON_ERROR],
          [status |-> 503, reason |-> "Service Unavailable",
           headers |-> ("date" :> "t1"), body |-> JSON_ERROR]}
    \cup (IF "if-none-match" \in DOMAIN sent
          THEN {[status |-> 304, reason |-> "Not Modified",
                 headers |-> ("etag" :> sent["if-none-match"]) @@ ("date" :> d),
                 body |-> <<>>] : d \in {"t1", "t2"}}
          ELSE {})

\* variant of the redirection that repeats the request with its own method
redirect_method_kept(status, method) == method

\* the redirection loop of the session that CachingSession relies on: after a
\* 303 the request to the Location URL is a GET
redirect_method(status, method) == IF status = 303 THEN "GET" ELSE method

\* the answer 303 of the upstream service to a request that is not a GET
SeeOther(method) ==
    IF method = "GET" THEN {}
    ELSE {[status |-> 303, reason |-> "See Other",
           headers |-> ("location" :> URL_PROJECT) @@ ("date" :> "t1"), body |-> <<>>]}

\* variant of dispatch that answers every upstream failure 500
dispatch_500(outcome) ==
    [pc |-> "ended", session |-> "closed", raised |-> outcome.kind = "exception",
     response |-> IF outcome.kind = "return" THEN <<[status |-> 200, body |-> JSON_EMPTY]>>
                  ELSE IF outcome.kind = "upstream"
                  THEN <<[status |-> 500, body |-> [message |-> outcome.message]]>>
                  ELSE <<>>]

\* variant of dispatch that closes the session where it returns a response
dispatch_no_finally(outcome) ==
    [pc |-> "ended", raised |-> outcome.kind = "exception",
     session |-> IF outcome.kind = "exception" THEN "open" ELSE "closed",
     response |-> IF outcome.kind = "return" THEN <<[status |-> 200, body |-> JSON_EMPTY]>>
                  ELSE IF outcome.kind = "upstream"
                  THEN <<[status |-> outcome.status, body |-> [message |-> outcome.message]]>>
                  ELSE <<>>]

\* SessionMiddleware.dispatch from the end of call_next: the handler returned
\* its response, an upstream call raised ClientResponseError(status, message),
\* or the handler raised another exception, which dispatch lets through
dispatch(outcome) ==
    [pc |-> "ended", session |-> "closed", raised |-> outcome.kind = "exception",
     response |-> IF outcome.kind = "return" THEN <<[status |-> 200, body |-> JSON_EMPTY]>>
                  ELSE IF outcome.kind = "upstream"
                  THEN <<[status |-> outcome.status, body |-> [message |-> outcome.message]]>>
                  ELSE <<>>]

\* the response of the request (origin is the redirected request, if any)
\* starts: CachingResponse.start, and what the caller is given; the session
\* was made with raise_for_status=True, and no handler catches the error
Received(cache, method, url, headers, ctx, sent, response, origin) ==
    LET k == CachingResponse_start(cache, method, url, response)
    IN  /\ client_cache' = k.cache
        /\ inbound' = IF k.response.status >= 400
                      THEN dispatch([kind |-> "upstream", status |-> k.response.status,
                                     message |-> k.response.reason])
                      ELSE inbound
        /\ exchange' =
             [op |-> "call", n |-> 1 - exchange.n,
              method |-> method, url |-> url,
              headers |-> headers, ctx |-> ctx, sent |-> sent,
              upstream |-> response, observed |-> k.response, origin |-> origin,
              received |->
                  IF /\ method = "GET"
                     /\ response.status = 200
                     /\ "etag" \in DOMAIN response.headers
                  THEN Put(exchange.received, url, response.headers["etag"])
                  ELSE exchange.received]

ClientCall(method, url, headers, ctx) ==
    /\ inbound.pc = "handling"
    /\ LET sent == CachingRequest_send(client_cache, method, url, headers, ctx)
       IN  \E response \in Upstream(sent) \cup SeeOther(method) :
             IF response.status # 303
             THEN Received(client_cache, method, url, headers, ctx, sent, response, <<>>)
             ELSE LET cache == CachingResponse_start(client_cache, method, url, response).cache
                      m == redirect_method(response.status, method)
                      location == response.headers["location"]
                      again == CachingRequest_send(cache, m, location, headers, ctx)
                  IN  \E followed \in Upstream(again) :
                          Received(cache, m, location, headers, ctx, again, followed,
                                   <<method, url>>)
    /\ UNCHANGED <<service_vars, signal_vars, context>>

\* SessionMiddleware.dispatch up to call_next: the session of the request
Dispatch ==
    /\ inbound.pc # "handling"
    /\ inbound' = [pc |-> "handling", session |-> "open", response |-> <<>>,
                   raised |-> FALSE]
    /\ UNCHANGED <<service_vars, signal_vars, client_cache, exchange, context>>

\* the handler returns, or raises an exception of its own
Finish(kind) ==
    /\ inbound.pc = "handling"
    /\ inbound' = dispatch([kind |-> kind])
    /\ UNCHANGED <<service_vars, signal_vars, client_cache, exchange, context>>

InitSession ==
    /\ impl = "memory"
    /\ entries = EmptyMap
    /\ vary_headers = EmptyMap
    /\ subs = {}
    /\ db = [project |-> "fresh", area |-> "fresh", collabs |-> {}]
    /\ req = [s \in Slots |-> IdleSlot]
    /\ ngets = 0
    /\ fired = {}
    /\ made = EmptyMap
    /\ published = [events |-> <<>>, evicted |-> {}]
    /\ raw = NoRaw
    /\ InitSignal
    /\ InitClient

\* the requests of main.py and role.py: a GET or a POST, with no headers or
\* with x-role, under the context headers of the inbound request
NextSession ==
    \/ Dispatch
    \/ \E kind \in {"return", "exception"} : Finish(kind)
    \/ \E method \in {"GET", "POST"}, url \in KeyUrls,
          headers \in {EmptyMap, ("x-role" :> "owner")},
          ctx \in {("x-user" :> "alice"), ("x-user" :> "alice") @@ ("x-role" :> "viewer")} :
           ClientCall(method, url, headers, ctx)

SpecSession == InitSession /\ [][NextSession]_vars

-----------------------------------------------------------------------------
(* context.py of the edge service and of the projects service.  _headers is  *)
(* a ContextVar: a request runs in a context of its own, set writes the      *)
(* value of the current context, and the tasks that call_next starts inherit *)
(* it.  The middlewares write before they call the handler, which reads.     *)

\* variant of set that writes one value shared by every context
_headers_set_global(value, task, mapping) == [t \in DOMAIN value |-> <<mapping>>]

\* _headers.set(mapping) in the context of the task
_headers_set(value, task, mapping) == [value EXCEPT ![task] = <<mapping>>]

\* current_headers(): _headers.get({})
current_headers(value, task) == IF value[task] = <<>> THEN EmptyMap ELSE value[task][1]

\* update_headers(**kwargs)
update_headers(value, task, kwargs) ==
    _headers_set(value, task, headers_update(current_headers(value, task), kwargs))

\* RequestHeadersMiddleware.dispatch with its HEADERS, on the headers of the
\* inbound request
ContextDispatch(task, HEADERS, headers) ==
    /\ context.pc[task] = "new"
    /\ LET mapping == [n \in DOMAIN headers \cap HEADERS |-> headers[n]]
       IN  context' = [value |-> _headers_set(context.value, task, mapping),
                       said |-> [context.said EXCEPT ![task] = mapping],
                       pc |-> [context.pc EXCEPT ![task] = "set"]]
    /\ UNCHANGED <<service_vars, signal_vars, client_cache, exchange, inbound>>

\* RoleMiddleware.dispatch: context.update_headers(**{"x-role": role})
ContextUpdate(task, kwargs) ==
    /\ context.pc[task] = "set"
    /\ context' = [context EXCEPT
                     !.value = update_headers(context.value, task, kwargs),
                     !.said[task] = headers_update(@, kwargs)]
    /\ UNCHANGED <<service_vars, signal_vars, client_cache, exchange, inbound>>

\* the request ends; the next request of the worker starts in a new context
ContextEnd(task) ==
    /\ context.pc[task] = "set"
    /\ context' = [context EXCEPT !.value[task] = <<>>, !.said[task] = EmptyMap,
                                  !.pc[task] = "new"]
    /\ UNCHANGED <<service_vars, signal_vars, client_cache, exchange, inbound>>

NextContext ==
    \/ \E task \in Tasks, HEADERS \in {{"x-user"}, {"x-user", "x-role"}} :
         \E headers \in {EmptyMap} \cup
              {Hdrs(user, role, None) @@ ("accept" :> "json") : user \in Users,
                                                                 role \in {None, "owner"}} :
            ContextDispatch(task, HEADERS, headers)
    \/ \E task \in Tasks, role \in {"owner", "viewer", "editor"} :
         ContextUpdate(task, ("x-role" :> role))
    \/ \E task \in Tasks : ContextEnd(task)

SpecContext == InitStore /\ [][NextContext]_vars

-----------------------------------------------------------------------------
(* projects/crud.py: CrudMixin, the persistence adapter of the model classes *)
(* of projects/database.py.  A table is the set of its rows, a row a mapping *)
(* of its columns.                                                           *)

Classes == {"Collaborator", "Area"}

\* primary_key=True columns of the class
PrimaryKey(cls) ==
    IF cls = "Collaborator" THEN {"project_id", "email"} ELSE {"area_id", "project_id"}

Rows(cls) ==
    IF cls = "Collaborator"
    THEN {("project_id" :> "p1") @@ ("email" :> e) @@ ("role" :> r) :
            e \in Users, r \in {"owner", "viewer", "editor"}}
    ELSE {("project_id" :> "p1") @@ ("area_id" :> a) @@ ("name" :> n) :
            a \in {"a1", "a2"}, n \in {"hall", "lab"}}

SamePk(cls, row, other) == \A c \in PrimaryKey(cls) : row[c] = other[c]

\* create(**kwargs): INSERT; a row of the same primary key makes execute raise
create(table, cls, kwargs) ==
    IF \E r \in table : SamePk(cls, r, kwargs)
    THEN [table |-> table, raised |-> "IntegrityError"]
    ELSE [table |-> table \cup {kwargs}, raised |-> None]

\* merge(key, **data): INSERT ... ON CONFLICT (key) DO UPDATE SET data
merge(table, cls, key, data) ==
    [table |-> IF \E r \in table : Matches(r, key)
               THEN {IF Matches(r, key) THEN headers_update(r, data) ELSE r : r \in table}
               ELSE table \cup {key @@ data},
     raised |-> None]

\* delete(*args): DELETE the rows that pass the filter
delete(table, cls, filter) ==
    [table |-> {r \in table : ~Matches(r, filter)}, raised |-> None]

\* a call of the adapter: it executes its statement and publishes nothing
Executed(op, cls, outcome) ==
    /\ db' = [db EXCEPT ![cls] = outcome.table]
    /\ raw' = [op |-> op, cls |-> cls, raised |-> outcome.raised, before |-> db[cls]]
    /\ UNCHANGED <<impl, entries, vary_headers, subs, req, ngets, fired, made, published>>
    /\ UNCHANGED <<signal_vars, client_vars>>

CrudCreate(cls, kwargs) == Executed("create", cls, create(db[cls], cls, kwargs))

CrudMerge(cls, key, data) == Executed("merge", cls, merge(db[cls], cls, key, data))

CrudDelete(cls, filter) == Executed("delete", cls, delete(db[cls], cls, filter))

\* Project.update, Area.update of main.py: CrudMixin has no update
CrudUpdate(cls) == Executed("update", cls, [table |-> db[cls], raised |-> "AttributeError"])

InitCrud ==
    /\ impl = "memory"
    /\ entries = EmptyMap
    /\ vary_headers = EmptyMap
    /\ subs = {}
    /\ db = [cls \in Classes |-> {}]
    /\ req = [s \in Slots |-> IdleSlot]
    /\ ngets = 0
    /\ fired = {}
    /\ made = EmptyMap
    /\ published = [events |-> <<>>, evicted |-> {}]
    /\ raw = NoRaw
    /\ InitSignal
    /\ InitClient

NextCrud ==
    \/ \E cls \in Classes : \E row \in Rows(cls) : CrudCreate(cls, row)
    \/ \E cls \in Classes : \E row \in Rows(cls) :
         CrudMerge(cls, [c \in PrimaryKey(cls) |-> row[c]],
                   [c \in DOMAIN row \ PrimaryKey(cls) |-> row[c]])
    \/ \E cls \in Classes : \E row \in Rows(cls), columns \in SUBSET PrimaryKey(cls) :
         CrudDelete(cls, [c \in columns |-> row[c]])
    \/ \E cls \in Classes : CrudUpdate(cls)

SpecCrud == InitCrud /\ [][NextCrud]_vars

-----------------------------------------------------------------------------
(* lookup.py: Signal.  A node of the tree is the path of (field, value)     *)
(* pairs that leads to it from the root; root maps every node to its set of *)
(* callbacks, and the children of a node are the nodes one pair longer.     *)

MaxSubs == 2        \* calls of Signal.subscribe in one behaviour

SignalKeys == <<"a", "b">>          \* the field names, in sorted order

SignalValues(k) == IF k = "a" THEN {1, 2} ELSE {2, 3}

SignalEvents ==
    UNION {{m \in [D -> 1..3] : \A k \in D : m[k] \in SignalValues(k)} :
              D \in SUBSET {"a", "b"}}

\* the filters of the tests: a=1, b=2, b=3, a=1 with b=2, and the empty one
SignalFilters ==
    {m \in SignalEvents : "a" \in DOMAIN m => (m["a"] = 1 /\ ("b" \in DOMAIN m => m["b"] = 2))}

\* foo and bar are mocks that record their calls; boom raises when called
Callbacks == {"foo", "bar", "boom"}

Raises(cb) == cb = "boom"

\* sorted(L, key=lambda x: x[0]) for the items of a mapping
RECURSIVE sorted_from(_, _)
sorted_from(m, i) ==
    IF i > Len(SignalKeys) THEN <<>>
    ELSE (IF SignalKeys[i] \in DOMAIN m
          THEN <<<<SignalKeys[i], m[SignalKeys[i]]>>>> ELSE <<>>)
             \o sorted_from(m, i + 1)

sorted_pairs(m) == sorted_from(m, 1)

\* a walk that returns from a node after the first child it finds
RECURSIVE _publish_first(_, _, _)
_publish_first(tree, node, match) ==
    IF match = <<>> THEN <<node>>
    ELSE IF Append(node, Head(match)) \in DOMAIN tree
    THEN <<node>> \o _publish_first(tree, Append(node, Head(match)), Tail(match))
    ELSE <<node>> \o Tail(_publish_first(tree, node, Tail(match)))

\* a walk that follows every child labelled with a field of the event
RECURSIVE _publish_field(_, _, _)
_publish_field(tree, node, match) ==
    IF match = <<>> THEN <<node>>
    ELSE LET next == {n \in DOMAIN tree : /\ Len(n) = Len(node) + 1
                                          /\ SubSeq(n, 1, Len(node)) = node
                                          /\ n[Len(n)][1] = Head(match)[1]}
         IN  IF next = {} THEN _publish_field(tree, node, Tail(match))
             ELSE <<node>> \o _publish_field(tree, CHOOSE n \in next : TRUE, Tail(match))
                      \o Tail(_publish_field(tree, node, Tail(match)))

\* _publish(node, match, event): the nodes whose callbacks are called, in the
\* order of the calls
RECURSIVE _publish(_, _, _)
_publish(tree, node, match) ==
    IF match = <<>> THEN <<node>>
    ELSE LET next == Append(node, Head(match))
         IN  <<node>>
                 \o (IF next \in DOMAIN tree THEN _publish(tree, next, Tail(match)) ELSE <<>>)
                 \o Tail(_publish(tree, node, Tail(match)))

\* the tree after subscribe(filter, callback)
signal_subscribe(tree, filter, cb) ==
    LET path == sorted_pairs(filter)
        created == {SubSeq(path, 1, i) : i \in 0..Len(path)}
    IN  [n \in DOMAIN tree \cup created |->
            (IF n \in DOMAIN tree THEN tree[n] ELSE {})
                \cup (IF n = path THEN {cb} ELSE {})]

\* how often each cb of each node was called: ran[i] is the set of
\* callbacks called at the i-th visited node
Calls(visited, ran) ==
    LET pairs == UNION {{<<visited[i], c>> : c \in ran[i]} : i \in DOMAIN ran}
    IN  [pr \in pairs |->
            Cardinality({i \in DOMAIN ran : visited[i] = pr[1] /\ pr[2] \in ran[i]})]

\* signal.subscribe(filter, callback); the handle is filed under its node and
\* cb with the number of times it was called
Subscribe(filter, cb) ==
    /\ Cardinality(UNION {{<<h, i>> : i \in DOMAIN handles[h]} : h \in DOMAIN handles}) < MaxSubs
    /\ root' = signal_subscribe(root, filter, cb)
    /\ LET h == <<sorted_pairs(filter), cb>>
       IN  handles' = Put(handles, h,
                          Append(IF h \in DOMAIN handles THEN handles[h] ELSE <<>>, 0))
    /\ result' = [op |-> "subscribe"]
    /\ UNCHANGED <<service_vars, client_vars>>

\* unsubscribe(): node.callbacks.remove(callback), KeyError when absent
Unsubscribe(h, i) ==
    /\ handles[h][i] < 2
    /\ handles' = [handles EXCEPT ![h][i] = @ + 1]
    /\ IF h[2] \in root[h[1]]
       THEN /\ root' = [root EXCEPT ![h[1]] = @ \ {h[2]}]
            /\ result' = [op |-> "unsubscribe", raised |-> None]
       ELSE /\ root' = root
            /\ result' = [op |-> "unsubscribe", raised |-> "KeyError"]
    /\ UNCHANGED <<service_vars, client_vars>>

\* signal.publish(event): the callbacks of the visited nodes are called in
\* turn, those of one node in any order, until one raises
Publish(event) ==
    /\ LET visited == _publish(root, <<>>, sorted_pairs(event))
           bad == {i \in DOMAIN visited : \E c \in root[visited[i]] : Raises(c)}
       IN  IF bad = {}
           THEN result' = [op |-> "publish", event |-> event, raised |-> None,
                           invoked |-> Calls(visited, [i \in DOMAIN visited |-> root[visited[i]]])]
           ELSE LET stop == CHOOSE i \in bad : \A j \in bad : i <= j
                IN  \E f \in {c \in root[visited[stop]] : Raises(c)},
                       before \in SUBSET {c \in root[visited[stop]] : ~Raises(c)} :
                        result' = [op |-> "publish", event |-> event, raised |-> f,
                                   invoked |-> Calls(visited,
                                       [i \in 1..stop |-> IF i < stop THEN root[visited[i]]
                                                          ELSE before \cup {f}])]
    /\ UNCHANGED <<root, handles, service_vars, client_vars>>

InitBroker ==
    /\ root = EmptyRoot
    /\ handles = EmptyMap
    /\ result = NoResult
    /\ impl = "memory"
    /\ entries = EmptyMap
    /\ vary_headers = EmptyMap
    /\ subs = {}
    /\ db = [project |-> "fresh", area |-> "fresh", collabs |-> {}]
    /\ req = [s \in Slots |-> IdleSlot]
    /\ ngets = 0
    /\ fired = {}
    /\ made = EmptyMap
    /\ published = [events |-> <<>>, evicted |-> {}]
    /\ raw = NoRaw
    /\ InitClient

NextBroker ==
    \/ \E filter \in SignalFilters, cb \in Callbacks : Subscribe(filter, cb)
    \/ \E h \in DOMAIN handles : \E i \in DOMAIN handles[h] : Unsubscribe(h, i)
    \/ \E event \in SignalEvents : Publish(event)

SpecBroker == InitBroker /\ [][NextBroker]_vars

\* once is a callback whose first action is to call the unsubscribe that
\* subscribe returned for it
OneShot(cb) == cb = "once"

\* signal.publish(event) with such callbacks subscribed: `for callback in
\* node.callbacks` iterates the set that unsubscribe removes from, and the
\* iterator of a set raises RuntimeError at its next step once the size of the
\* set has changed
PublishOneShot(event) ==
    LET visited == _publish(root, <<>>, sorted_pairs(event))
        matching == UNION {{<<visited[i], c>> : c \in root[visited[i]]} : i \in DOMAIN visited}
        bad == {i \in DOMAIN visited : \E c \in root[visited[i]] : OneShot(c)}
    IN  /\ IF bad = {}
           THEN /\ result' = [op |-> "publish", event |-> event, raised |-> None,
                              matching |-> matching,
                              invoked |-> Calls(visited,
                                                [i \in DOMAIN visited |-> root[visited[i]]])]
                /\ root' = root
           ELSE LET stop == CHOOSE i \in bad : \A j \in bad : i <= j
                IN  \E f \in {c \in root[visited[stop]] : OneShot(c)},
                       before \in SUBSET {c \in root[visited[stop]] : ~OneShot(c)} :
                        /\ result' = [op |-> "publish", event |-> event,
                                      raised |-> "RuntimeError", matching |-> matching,
                                      invoked |-> Calls(visited,
                                          [i \in 1..stop |-> IF i < stop THEN root[visited[i]]
                                                             ELSE before \cup {f}])]
                        /\ root' = [root EXCEPT ![visited[stop]] = @ \ {f}]
        /\ UNCHANGED <<handles, service_vars, client_vars>>

NextOneShot ==
    \/ \E filter \in SignalFilters, cb \in {"foo", "bar", "once"} : Subscribe(filter, cb)
    \/ \E event \in SignalEvents : PublishOneShot(event)

SpecOneShot == InitBroker /\ [][NextOneShot]_vars

-----------------------------------------------------------------------------
(* Properties of the middleware, the sink and the invalidation *)

\* the step is the arrival of a GET in slot s
Arrives(s) == ngets' = ngets + 1 /\ req'[s].scope = ngets'

\* the step is the final message of the response in slot s
Completes(s) == req[s].pc = "sending" /\ req'[s].pc = "done"

\* a write handler ran in the step
Written == db' # db

\* the entry stored under the key of the request, as a 0/1 sequence
Stored(url, headers) ==
    IF lookup_key(url, headers) \in DOMAIN entries
    THEN <<entries[lookup_key(url, headers)]>> ELSE <<>>

Validates(url, headers) ==
    /\ Stored(url, headers) # <<>>
    /\ Stored(url, headers)[1].etag = GetH(headers, "if-none-match")

\* the subscription c was registered for the event published as <<model, event>>
Concerns(c, ev) == c.model = ev[1] /\ Matches(ev[2], c.filters)

\* C1: a GET that arrives after a write matching a filter its handler declared
\* is not answered 304 from an entry whose data was read before that write
C1_NoStaleNotModified ==
    [][\A s \in Slots :
          (Arrives(s) /\ req'[s].hit # <<>>) => req'[s].hit[1].scope \notin fired]_vars

\* C2: a GET whose key has an entry with the etag of its If-None-Match is sent
\* 304 with the stored headers and an empty body, and the app is not called
C2_NotModified ==
    [][\A s \in Slots :
          (Arrives(s) /\ Validates(req'[s].url, req'[s].headers)) =>
              /\ req'[s].pc = "done"
              /\ ~req'[s].handled
              /\ Len(req'[s].sent) = 2
              /\ req'[s].sent[1].type = "http.response.start"
              /\ req'[s].sent[1].status = 304
              /\ req'[s].sent[1].headers =
                     Stored(req'[s].url, req'[s].headers)[1].headers
              /\ req'[s].sent[2].type = "http.response.body"
              /\ req'[s].sent[2].body = <<>>
              /\ ~req'[s].sent[2].more_body]_vars

C2_Witness ==
    \E s \in Slots :
        /\ req[s].pc = "done"
        /\ ~req[s].handled
        /\ req[s].sent # <<>>
        /\ req[s].sent[1].status = 304
        /\ req[s].sent[1].headers # <<>>

\* the start message the client gets for the start message the app sent
WithETag(start, bodies) ==
    IF start.status = 200
    THEN [start EXCEPT !.headers = Append(@, <<"ETag", sha1(Delivered(bodies))>>)]
    ELSE start

\* C3: a GET without If-None-Match, with one that differs from the stored
\* etag, or without an entry under its key is handed to the app, and the
\* client gets the response of the app and no 304
C3_FullResponse ==
    /\ [][\A s \in Slots :
             (Arrives(s) /\ ~Validates(req'[s].url, req'[s].headers)) =>
                 (req'[s].pc = "app" /\ req'[s].sent = <<>>)]_vars
    /\ [](\A s \in Slots :
             (req[s].pc = "done" /\ req[s].handled) =>
                 /\ req[s].sent = <<WithETag(req[s].resp[1], Tail(req[s].resp))>>
                                      \o Tail(req[s].resp)
                 /\ req[s].sent[1].status # 304)

C3_Witness ==
    \E s \in Slots :
        /\ req[s].pc = "done"
        /\ req[s].handled
        /\ GetH(req[s].headers, "if-none-match") = OTHER_ETAG
        /\ Stored(req[s].url, req[s].headers) # <<>>
        /\ made[lookup_key(req[s].url, req[s].headers)].scope < req[s].scope
        /\ Delivered(req[s].sent) # <<>>

\* C4: when a 200 response completes, the store holds an entry under the key
\* of the request whose etag is the hash of the body, and the start message
\* sent to the client has that ETag
C4_StoredOnSuccess ==
    [][\A s \in Slots :
          (Completes(s) /\ req'[s].response_start[1].status = 200) =>
              /\ Stored(req[s].url, req[s].headers)' # <<>>
              /\ Stored(req[s].url, req[s].headers)'[1].etag =
                     sha1(Delivered(req'[s].response_body))
              /\ ETagOf(req'[s].sent[1].headers) =
                     <<sha1(Delivered(req'[s].response_body))>>]_vars

C4_Witness ==
    \E s \in Slots :
        /\ req[s].pc = "done"
        /\ req[s].handled
        /\ req[s].sent[1].status = 200
        /\ Stored(req[s].url, req[s].headers) # <<>>
        /\ ETagOf(req[s].sent[1].headers) = <<Stored(req[s].url, req[s].headers)[1].etag>>

C6_InvalidationSound ==
    [][Written =>
          \A c \in subs :
              (\E i \in 1..Len(published'.events) : Concerns(c, published'.events[i]))
                  => c.key \notin DOMAIN entries']_vars

C6_Witness ==
    /\ published.evicted # {}
    /\ \E c \in subs :
           /\ c.key \in published.evicted
           /\ \E i \in 1..Len(published.events) : Concerns(c, published.events[i])

\* C7: a subscription evicts its key only when it is called with an event
\* that holds every field of its filter with an equal value
C7_EvictsOnlyOnMatch ==
    \A c \in subs : \A i \in 1..Len(published.events) :
        (c.model = published.events[i][1] /\ c.key \in published.evicted)
            => Matches(published.events[i][2], c.filters)

\* C8: after an event matching a filter of a vary scope is published, the key
\* of the scope is absent and no subscription of the scope is registered
C8_OneShot ==
    [][Written =>
          \A c \in subs :
              (\E i \in 1..Len(published'.events) : Concerns(c, published'.events[i]))
                  => /\ c.key \notin DOMAIN entries'
                     /\ \A x \in subs' : x.scope # c.scope]_vars

\* C9: a GET of /projects, whose responses declare Vary: x-user, is answered
\* 304 only from an entry that a response to the same user created
C9_NoCrossUserHit ==
    [][\A s \in Slots :
          (Arrives(s) /\ req'[s].url = URL_PROJECTS /\ req'[s].hit # <<>>) =>
              req'[s].hit[1].user = GetH(req'[s].headers, "x-user")]_vars

\* the requests r1 and r2 have the same URL and, for every header of the Vary
\* tuple recorded for it, the same value, a missing header counting as None
SameVarying(vh, r1, r2) ==
    /\ r1.url = r2.url
    /\ LET vary == IF r1.url \in DOMAIN vh THEN vh[r1.url] ELSE <<>>
       IN  \A i \in 1..Len(vary) :
               GetH(r1.headers, vary[i][1]) = GetH(r2.headers, vary[i][1])

\* C10: under the recorded Vary tuples, two requests have equal keys iff they
\* have the same URL and the same value for every varying header, and get
\* returns to a request only an entry stored for a request that agrees with it
C10_KeysEqualIffSameVarying ==
    /\ \A r1, r2 \in KeyRequests :
           (_get_key(vary_headers, r1.url, r1.headers)
                = _get_key(vary_headers, r2.url, r2.headers))
               <=> SameVarying(vary_headers, r1, r2)
    /\ \A r \in KeyRequests :
           get(entries, vary_headers, r.url, r.headers) # <<>> =>
               SameVarying(vary_headers,
                           made[_get_key(vary_headers, r.url, r.headers)], r)

C10_Witness ==
    \E r1, r2 \in KeyRequests :
        /\ r1.url = r2.url
        /\ "x-user" \in DOMAIN r1.headers
        /\ "x-user" \notin DOMAIN r2.headers
        /\ get(entries, vary_headers, r1.url, r1.headers) # <<>>
        /\ get(entries, vary_headers, r2.url, r2.headers) # <<>>
        /\ made[_get_key(vary_headers, r1.url, r1.headers)] = r1
        /\ made[_get_key(vary_headers, r2.url, r2.headers)] = r2

-----------------------------------------------------------------------------
(* Properties of the Signal *)

\* the filter whose sorted pairs lead to the node
FilterOf(node) ==
    [k \in {node[i][1] : i \in DOMAIN node} |->
        (CHOOSE pr \in {node[i] : i \in DOMAIN node} : pr[1] = k)[2]]

\* how often the latest publish called the callback h[2] of the node h[1]
Invoked(h) == IF h \in DOMAIN result.invoked THEN result.invoked[h] ELSE 0

\* the callbacks the Signal holds, each with its node
Registered == UNION {{<<n, c>> : c \in root[n]} : n \in DOMAIN root}

\* a handle of the node and callback h was returned and never called
Live(h) == h \in DOMAIN handles /\ \E i \in DOMAIN handles[h] : handles[h][i] = 0

\* C11: a publish that returns has called every registered callback whose
\* filter is contained in the event exactly once, and no publish calls a
\* callback twice
C11_PublishCallsMatching ==
    result.op = "publish" =>
        /\ \A h \in DOMAIN result.invoked : result.invoked[h] = 1
        /\ result.raised = None =>
               \A h \in Registered : Matches(result.event, FilterOf(h[1])) => Invoked(h) = 1

\* filters that are all of the event, a prefix of it, skip its first field,
\* and share a path with another matching filter were called together
C11_Witness ==
    /\ result.op = "publish"
    /\ result.raised = None
    /\ DOMAIN result.event = {"a", "b"}
    /\ \E c1, c2 \in Callbacks :
           /\ Invoked(<<sorted_pairs(result.event), c1>>) = 1
           /\ \/ Invoked(<<<<<<"a", result.event["a"]>>>>, c2>>) = 1
              \/ Invoked(<<<<<<"b", result.event["b"]>>>>, c2>>) = 1

\* C12: publish calls no callback whose filter has a field that the event
\* lacks or holds with another value
C12_PublishCallsOnlyMatching ==
    result.op = "publish" =>
        \A h \in DOMAIN result.invoked : Matches(result.event, FilterOf(h[1]))

C12_Witness ==
    /\ result.op = "publish"
    /\ \E h1, h2 \in Registered :
           /\ Invoked(h1) = 1
           /\ Invoked(h2) = 0
           /\ \E k \in DOMAIN FilterOf(h2[1]) :
                  k \in DOMAIN result.event /\ result.event[k] # FilterOf(h2[1])[k]

\* C13: calling a handle that was called before completes without error and
\* leaves the callbacks of the Signal as they were
C13_UnsubscribeIdempotent ==
    [][\A h \in DOMAIN handles : \A i \in DOMAIN handles[h] :
          (handles[h][i] >= 1 /\ handles'[h][i] = handles[h][i] + 1) =>
              (result'.raised = None /\ root' = root)]_vars

\* C14: a publish in which a callback raises still calls every other callback
\* whose filter matches exactly once and does not raise to its caller
C14_FailureIsolated ==
    (result.op = "publish"
        /\ \E h \in Registered : Raises(h[2]) /\ Matches(result.event, FilterOf(h[1]))) =>
        /\ result.raised = None
        /\ \A h \in Registered :
               (~Raises(h[2]) /\ Matches(result.event, FilterOf(h[1]))) => Invoked(h) = 1

\* C15: a publish that returns has called the callback of every handle that
\* was returned and not called yet and whose filter matches, and only
\* callbacks that have such a handle
C15_ActiveUntilUnsubscribed ==
    (result.op = "publish" /\ result.raised = None) =>
        /\ \A h \in DOMAIN handles :
               (Live(h) /\ Matches(result.event, FilterOf(h[1]))) => Invoked(h) >= 1
        /\ \A h \in DOMAIN result.invoked : Live(h)

-----------------------------------------------------------------------------
(* Properties of the requests that bypass the cache *)

\* the statuses of the start messages among the messages
RECURSIVE Statuses(_)
Statuses(messages) ==
    IF messages = <<>> THEN {}
    ELSE (IF Head(messages).type = "http.response.start"
          THEN {Head(messages).status} ELSE {})
             \cup Statuses(Tail(messages))

\* the ETag headers of the start messages among the messages
RECURSIVE ETags(_)
ETags(messages) ==
    IF messages = <<>> THEN <<>>
    ELSE (IF Head(messages).type = "http.response.start"
          THEN ETagOf(Head(messages).headers) ELSE <<>>)
             \o ETags(Tail(messages))

\* a step that is the whole call of the middleware for a request that is not a GET
Passes == ngets' # ngets /\ req' = req

\* C16: a request that is not a GET, or whose scope is not http, reaches the
\* client exactly as the handler answered it: it is never answered 304, no
\* ETag is added, and the call leaves the entries and the Vary table as they
\* were; a write handler, which publishes its events during such a call, only
\* removes entries and never adds or replaces one.
C16_PassThrough ==
    [][/\ Passes =>
            /\ raw'.sent = raw'.response
            /\ 304 \notin Statuses(raw'.sent)
            /\ ETags(raw'.sent) = <<>>
            /\ entries' = entries
            /\ vary_headers' = vary_headers
       /\ published' # published =>
            /\ vary_headers' = vary_headers
            /\ \A k \in DOMAIN entries' : k \in DOMAIN entries /\ entries'[k] = entries[k]]_vars

\* a POST that carries the ETag stored for its URL was answered by the handler
C16_Witness ==
    /\ raw.method = "POST"
    /\ etag_matches(lookup(raw.url, raw.headers), raw.headers)
    /\ Statuses(raw.sent) = {200}

\* a step of a GET whose handler answered with a status other than 200
NotOk(s) ==
    /\ req'[s] # req[s]
    /\ req'[s].handled
    /\ 200 \notin Statuses(req'[s].resp)

\* C17: while the handler of a GET sends a response whose status is not 200,
\* the entries and the Vary table stay as they are, and when the response
\* completes the client has received the start message and the chunks exactly
\* as the handler sent them, with no ETag header.
C17_NotOkForwarded ==
    [][\A s \in Slots :
          NotOk(s) =>
            /\ entries' = entries
            /\ vary_headers' = vary_headers
            /\ req'[s].pc = "done" =>
                 /\ req'[s].sent = req'[s].resp
                 /\ ETags(req'[s].sent) = <<>>]_vars

\* a response of another status, sent in two chunks, completed while the cache
\* held an entry
C17_Witness ==
    \E s \in Slots :
        /\ req[s].pc = "done"
        /\ req[s].handled
        /\ 200 \notin Statuses(req[s].resp)
        /\ Len(req[s].resp) = 3
        /\ req[s].sent = req[s].resp
        /\ entries # EmptyMap

-----------------------------------------------------------------------------
(* Properties of the store *)

\* C18: for every store made under a key since the key was last invalidated,
\* a get with the url and the request headers of that store finds, under that
\* same key, the entry of that store or of a later store under the key: the
\* entry found is the one of the last store under the key.  This holds also
\* for the store that recorded the Vary tuple of the URL.
C18_StoreThenGet ==
    \A k \in DOMAIN made : \A st \in made[k].stores :
        LET e == get(entries, vary_headers, st.url, st.headers)
        IN  /\ _get_key(vary_headers, st.url, st.headers) = k
            /\ e # <<>>
            /\ e[1].etag = made[k].etag
            /\ made[k].n >= st.n

\* a key stored twice with different bodies, under a Vary tuple that the
\* first store recorded, and the get that follows
C18_Witness ==
    /\ result.op = "get"
    /\ result.key \in DOMAIN made
    /\ Cardinality(result.key) = 2
    /\ Cardinality(made[result.key].stores) = 2
    /\ \E st \in made[result.key].stores : st.n < made[result.key].n
    /\ result.entry = <<entries[result.key]>>
    /\ entries[result.key].etag = sha1(<<0, 2, 1>>)

\* invalidate(k) is called in the step: a write handler publishes an event for
\* which the callback of a subscription bound to the key k runs invalidate
Invalidated(k) ==
    /\ Written
    /\ \E c \in subs : \E i \in 1..Len(published'.events) :
          /\ c.key = k
          /\ c.model = published'.events[i][1]
          /\ _match(published'.events[i][2], c.filters)

\* C19: an entry leaves the store only in a step that calls invalidate with
\* its key, and it is replaced only by a store under its key: the lookups, the
\* 304 answers, the responses of another status and the stores under other
\* keys leave it as it is.  A write whose invalidate calls all name absent
\* keys leaves the store unchanged.
C19_RemovedOnlyByInvalidate ==
    [][/\ \A k \in DOMAIN entries :
            /\ k \notin DOMAIN entries' => Invalidated(k)
            /\ (k \in DOMAIN entries' /\ entries'[k] # entries[k]) =>
                   (k \in DOMAIN made' /\ made'[k] # made[k])
       /\ (Written /\ ~ \E k \in DOMAIN entries : Invalidated(k)) =>
              (entries' = entries /\ vary_headers' = vary_headers)]_vars

\* an entry that was answered 304 is in the store after a write that called
\* invalidate with an absent key only
C19_Witness ==
    \E s \in Slots :
        /\ req[s].pc = "done"
        /\ 304 \in Statuses(req[s].sent)
        /\ Stored(req[s].url, req[s].headers) # <<>>
        /\ fired # {}
        /\ published.events # <<>>
        /\ published.evicted = {}

-----------------------------------------------------------------------------
(* Properties of the outbound session *)

C21_SubstitutesStored ==
    [][(/\ exchange'.n # exchange.n
        /\ exchange'.method = "GET"
        /\ exchange'.upstream.status = 304
        /\ response_key(exchange'.url) \in DOMAIN client_cache) =>
            LET stored == client_cache[response_key(exchange'.url)].response
            IN  /\ exchange'.observed.status = stored.status
                /\ exchange'.observed.body = stored.body
                /\ exchange'.observed.headers = stored.headers]_vars

\* C22: every header that the caller of a request set is sent with the value
\* the caller gave it, and a context header is sent with its ambient value
\* when the caller did not set a header of that name.
C22_CallerHeadersKept ==
    exchange.op = "call" =>
        /\ \A n \in DOMAIN exchange.headers : exchange.sent[n] = exchange.headers[n]
        /\ \A n \in DOMAIN exchange.ctx \ DOMAIN exchange.headers :
               exchange.sent[n] = exchange.ctx[n]

\* C23: when a request that is not a GET is answered 303, the session sends a
\* GET to the Location URL, and a 200 answer with an ETag to that GET is stored
\* under the Location URL as the same answer to a GET sent directly is.
C23_FollowedGetStored ==
    [][(exchange'.n # exchange.n /\ exchange'.origin # <<>>) =>
          /\ exchange'.method = "GET"
          /\ exchange'.url = URL_PROJECT
          /\ client_cache' = CachingResponse_start(client_cache, "GET", exchange'.url,
                                                   exchange'.upstream).cache
          /\ (/\ exchange'.upstream.status = 200
              /\ "etag" \in DOMAIN exchange'.upstream.headers) =>
                 /\ <<exchange'.url>> \in DOMAIN client_cache'
                 /\ client_cache'[<<exchange'.url>>].etag
                        = exchange'.upstream.headers["etag"]
                 /\ client_cache'[<<exchange'.url>>].response = exchange'.upstream]_vars

\* a POST was answered 303 and the GET that followed was answered 200 with an
\* ETag, which replaced the entry of the Location URL
C23_Witness ==
    /\ exchange.op = "call"
    /\ exchange.origin = <<"POST", URL_PROJECTS>>
    /\ exchange.method = "GET"
    /\ exchange.upstream.status = 200
    /\ GetH(exchange.sent, "if-none-match") = "v1"
    /\ GetH(exchange.upstream.headers, "etag") = "v2"
    /\ client_cache[<<URL_PROJECT>>].etag = "v2"

\* C24: when an upstream call of an inbound request is answered 4xx or 5xx,
\* the inbound request is answered with that status and the JSON body
\* {message: reason of the upstream answer}, and the failed answer leaves the
\* client cache as it was.
C24_UpstreamFailureMirrored ==
    [][(exchange'.n # exchange.n /\ exchange'.upstream.status >= 400) =>
          /\ inbound'.pc = "ended"
          /\ inbound'.response = <<[status |-> exchange'.upstream.status,
                                    body |-> [message |-> exchange'.upstream.reason]]>>
          /\ ~inbound'.raised
          /\ client_cache' = client_cache]_vars

\* a conditional GET of a cached URL was answered 503, and so was the inbound
\* request
C24_Witness ==
    /\ inbound.pc = "ended"
    /\ inbound.response = <<[status |-> 503, body |-> [message |-> "Service Unavailable"]]>>
    /\ exchange.method = "GET"
    /\ exchange.upstream.status = 503
    /\ "if-none-match" \in DOMAIN exchange.sent
    /\ <<exchange.url>> \in DOMAIN client_cache

\* C25: the session of an inbound request is open while the request is
\* handled and closed when the request has ended, whether the handler
\* returned, an upstream failure was translated, or the handler raised
\* another exception.
C25_SessionClosed ==
    /\ inbound.pc = "handling" => inbound.session = "open"
    /\ inbound.pc = "ended" => inbound.session = "closed"

\* the handler raised an exception of its own after an upstream call
C25_Witness ==
    /\ inbound.pc = "ended"
    /\ inbound.raised
    /\ inbound.response = <<>>
    /\ inbound.session = "closed"
    /\ exchange.op = "call"

-----------------------------------------------------------------------------
(* Properties of the request context *)

\* C26: with two requests interleaved, current_headers() in a request is the
\* mapping of the allow-listed headers of that request merged with the
\* update_headers calls of that request, the latest value of a name winning,
\* whatever the other request set; it is the empty mapping in a request that
\* set nothing.
C26_ContextIsolated ==
    \A task \in Tasks :
        /\ current_headers(context.value, task) = context.said[task]
        /\ context.pc[task] = "new" => current_headers(context.value, task) = EmptyMap

\* both requests have set x-user and updated x-role, to different values, and
\* the second update of one of them replaced its first
C26_Witness ==
    /\ \A task \in Tasks : context.pc[task] = "set"
    /\ current_headers(context.value, 1) = ("x-user" :> "alice") @@ ("x-role" :> "viewer")
    /\ current_headers(context.value, 2) = ("x-user" :> "bob") @@ ("x-role" :> "owner")

-----------------------------------------------------------------------------
(* Properties of the persistence adapter *)

\* C27: every create, merge, update and delete through the adapter publishes
\* an event that carries the primary key columns of the entity and an _action
\* of create, update or delete: a step that changes a row publishes, for every
\* row it changed, an event of the class with the row's primary key.
C27_MutationPublishes ==
    [][\A cls \in Classes :
         \A row \in (db[cls] \ db'[cls]) \cup (db'[cls] \ db[cls]) :
            \E i \in 1..Len(published'.events) :
               LET event == published'.events[i]
               IN  /\ event[1] = cls
                   /\ {"_action"} \cup PrimaryKey(cls) \subseteq DOMAIN event[2]
                   /\ event[2]["_action"] \in {"create", "update", "delete"}
                   /\ SamePk(cls, event[2], row)]_vars

-----------------------------------------------------------------------------
(* Properties of the sink, message by message *)

\* the messages the sink of the request was called with so far
Called(r) == SubSeq(r.resp, 1, Len(r.resp) - Len(r.out))

\* C28: a GET cancelled before its response was completely forwarded to the
\* client leaves the cache as it was when the request began: no entry and no
\* Vary record of that request.
C28_CancelledStoresNothing ==
    \A s \in Slots :
        (req[s].pc = "cancelled" /\ (~req[s].complete \/ req[s].pending # <<>>))
            => /\ entries = req[s].before.entries
               /\ vary_headers = req[s].before.vary_headers

\* C29: the sink reports a protocol error whenever it is called with a body
\* message before the start message, also when that body has more_body set
\* and the start message arrives later: once the start message has arrived
\* after a body, the sink has raised.
C29_EarlyBodyReported ==
    \A s \in Slots :
        (/\ req[s].pc # "idle"
         /\ req[s].response_start # <<>>
         /\ \E i \in 1..Len(Called(req[s])) :
              /\ Called(req[s])[i].type = "http.response.body"
              /\ \A j \in 1..(i - 1) : Called(req[s])[j].type # "http.response.start")
            => req[s].pc = "error"

\* C30 as stated: whenever the sink has raised a protocol error, the entries
\* and the Vary table are those of the beginning of the request and nothing
\* has been forwarded to the client.
C30_ErrorLeavesNothing ==
    \A s \in Slots :
        req[s].pc = "error"
            => /\ entries = req[s].before.entries
               /\ vary_headers = req[s].before.vary_headers
               /\ req[s].sent = <<>>

\* C30: the call of the sink that raises a protocol error changes neither the
\* entries nor the Vary table and forwards nothing; when it raises before the
\* final body message of the response, the entries and the Vary table are
\* those of the beginning of the request and the client was sent nothing.
C30_RaiseLeavesNothing ==
    [][\A s \in Slots :
         (req'[s].pc = "error" /\ req[s].pc # "error")
            => /\ entries' = entries
               /\ vary_headers' = vary_headers
               /\ req'[s].sent = req[s].sent
               /\ ~req[s].complete
                    => /\ entries' = req[s].before.entries
                       /\ vary_headers' = req[s].before.vary_headers
                       /\ req'[s].sent = <<>>]_vars

\* the sink raised on a message that is no body, after the start message of a
\* 200 and before any final body, while the cache holds entries of earlier
\* responses
C30_Witness ==
    \E s \in Slots :
        /\ req[s].pc = "error"
        /\ ~req[s].complete
        /\ req[s].response_start # <<>>
        /\ req[s].response_start[1].status = 200
        /\ Called(req[s])[Len(Called(req[s]))] = Trailers
        /\ entries # EmptyMap
        /\ vary_headers # EmptyMap

\* C31: when the handler fails after the start message and some body chunks
\* and before the final chunk, the messages the sink received so far are
\* forwarded to the client and no entry is stored for the request.
C31_FailureForwardsReceived ==
    \A s \in Slots :
        (/\ req[s].pc = "failed"
         /\ ~req[s].complete
         /\ Len(Called(req[s])) >= 2
         /\ Called(req[s])[1].type = "http.response.start"
         /\ \A i \in 2..Len(Called(req[s])) : Called(req[s])[i].type = "http.response.body")
            => /\ req[s].sent = Called(req[s])
               /\ entries = req[s].before.entries
               /\ vary_headers = req[s].before.vary_headers

-----------------------------------------------------------------------------
(* Properties of the Vary header *)

\* C33: a 200 response whose Vary header is * is never stored: after it, the
\* cache has no entry for the request and get for the URL misses.
C33_VaryStarNotStored ==
    (result.op = "vary" /\ result.vary = <<<<"*">>>>)
        => /\ result.key \notin DOMAIN entries
           /\ get(entries, vary_headers, result.url, result.headers) = <<>>

\* the Vary header with every ',' written as ';'
Semicolons(vary) == [i \in 1..Len(vary) |-> IF vary[i] = "," THEN ";" ELSE vary[i]]

\* C34: store records the same tuple of lowercased, trimmed names whether the
\* Vary header separates them by ';' or by ',', so the key of the request is
\* the same for both forms.
C34_CommaAsSemicolon ==
    (result.op = "vary" /\ result.vary # <<>>)
        => /\ vary_headers[result.url] = _parse_vary(Semicolons(result.vary[1]))
           /\ result.key = _create_key(result.url, result.headers,
                                       _parse_vary(Semicolons(result.vary[1])))

\* C39: the key that _vary binds to the invalidation subscriptions of the
\* request is the key under which store files the response, whatever the
\* letter case and the surrounding whitespace of the declared names and
\* whether or not the response already carried a Vary header.
C39_BoundKeyIsStoreKey ==
    (result.op = "vary" /\ result.bound # <<>>) => result.bound[1] = result.key

IsStart(message) == message.type = "http.response.start"

IsBody(message) == message.type = "http.response.body"

\* the messages up to the first final body message the sink accepted
UpToFinal(r) ==
    LET c == Called(r)
        n == CHOOSE i \in 1..Len(c) :
                 /\ IsBody(c[i]) /\ ~c[i].more_body
                 /\ \A j \in 1..(i - 1) : ~(IsBody(c[j]) /\ ~c[j].more_body)
    IN  SubSeq(c, 1, n)

\* C32: for a GET that reaches the handler the sink forwards nothing until the
\* final body chunk arrives; it then forwards the start message first and
\* after it every accumulated body chunk once, in the order the handler
\* emitted them.
C32_ForwardedAtFinalChunk ==
    \A s \in Slots :
        req[s].pc # "idle" =>
            IF ~req[s].complete
            THEN req[s].sent = <<>> /\ req[s].pending = <<>>
            ELSE LET first == UpToFinal(req[s])
                     out == req[s].sent \o req[s].pending
                 IN  (\A i \in (Len(first) + 1)..Len(Called(req[s])) :
                         ~IsStart(Called(req[s])[i]) /\ ~IsBody(Called(req[s])[i]))
                        => /\ Len(out) >= 1
                           /\ IsStart(out[1])
                           /\ out[1].status = SelectSeq(first, IsStart)[1].status
                           /\ Tail(out) = SelectSeq(first, IsBody)

\* a response of two chunks was sent start first, then its chunks in order
C32_Witness ==
    \E s \in Slots :
        /\ req[s].pc = "done"
        /\ req[s].complete
        /\ Len(req[s].sent) = 3
        /\ req[s].sent[2] = Body(<<0>>, TRUE)
        /\ req[s].sent[3] = Body(<<2, 1>>, FALSE)

\* C40: once the sink has forwarded a completed response, a further message
\* of the handler forwards nothing more to the client and stores nothing, so
\* no start message and no body chunk reaches the client twice.
C40_NothingAfterComplete ==
    [][\A s \in Slots :
         (req[s].pc = "sending" /\ req[s].complete)
            => /\ req'[s].pending = <<>>
               /\ req'[s].sent = req[s].sent
               /\ entries' = entries
               /\ vary_headers' = vary_headers]_vars

-----------------------------------------------------------------------------
(* Properties of the stored headers *)

\* the headers hold the ETag header of the value and, when a Vary tuple is
\* recorded for the URL, a Vary header that lists it
CarriesETagAndVary(headers, etag, url) ==
    /\ \E i \in 1..Len(headers) : headers[i] = <<"ETag", etag>>
    /\ url \in DOMAIN vary_headers
         => /\ FirstVary(headers) # <<>>
            /\ _parse_vary(FirstVary(headers)[1]) = vary_headers[url]

\* C35: in every reachable state the headers of each stored entry include an
\* ETag header equal to the etag of the entry and the Vary header of the
\* response that created it, so every 304 carries the ETag the client sent and
\* the Vary recorded for the URL.
C35_EntryHeaders ==
    /\ \A k \in DOMAIN entries :
         CarriesETagAndVary(entries[k].headers, entries[k].etag,
                            IF impl = "memory" THEN (CHOOSE e \in k : Len(e) = 1)[1]
                            ELSE k[1])
    /\ \A s \in Slots :
         (req[s].pc = "done" /\ req[s].hit # <<>>)
            => /\ req[s].sent[1].status = 304
               /\ CarriesETagAndVary(req[s].sent[1].headers,
                                     GetH(req[s].headers, "if-none-match"), req[s].url)

\* a request was answered 304 for a URL with a recorded Vary tuple while its
\* entry is stored
C35_Witness ==
    \E s \in Slots :
        /\ req[s].pc = "done"
        /\ req[s].hit # <<>>
        /\ req[s].url \in DOMAIN vary_headers
        /\ vary_headers[req[s].url] # <<>>
        /\ lookup_key(req[s].url, req[s].headers) \in DOMAIN entries

-----------------------------------------------------------------------------
(* Properties of callbacks that unsubscribe while the Signal publishes *)

\* C36: a callback that unsubscribes itself as its first action while
\* publish(E) runs does not abort the publish: every callback matching E,
\* itself and the others, has been called exactly once and publish returned
\* without error.
C36_SelfUnsubscribeHarmless ==
    (result.op = "publish" /\ \E pr \in result.matching : OneShot(pr[2]))
        => /\ result.raised = None
           /\ \A pr \in result.matching :
                 pr \in DOMAIN result.invoked /\ result.invoked[pr] = 1

-----------------------------------------------------------------------------
(* Properties of the role check *)

\* C37: a GET of a role-protected route without an x-role header is never
\* answered 304 by the middleware: the handler answers it, with 401, also on
\* the route that declares an empty Vary list.
C37_NoRoleNeverNotModified ==
    \A s \in Slots :
        (/\ req[s].pc = "done"
         /\ req[s].url \in {URL_PROJECT, URL_COLLABORATOR}
         /\ "x-role" \notin DOMAIN req[s].headers)
            => /\ req[s].hit = <<>>
               /\ req[s].sent[1].status = 401

-----------------------------------------------------------------------------
(* Properties of a GET interleaved with a write *)

\* C38: an entry is never stored after the invalidation subscriptions of its
\* own request have fired: once the requests have completed, no stored entry
\* was computed by a request whose declared predicates matched an event
\* published between its registration and its store.
C38_NoStoreAfterInvalidation ==
    (\A s \in Slots : req[s].pc \in {"idle", "done"})
        => \A k \in DOMAIN entries : made[k].scope \notin fired

====
